---- MODULE Spec2Model ----
(***************************************************************************)
(* Prime-curvature spectral engine of hasjack/OnGravity.                   *)
(*                                                                         *)
(* The pipeline is a chain of independent components; each component is    *)
(* modelled by its own group of variables and its own specification:       *)
(*   SpecSieve     generate_primes / approx_nth_prime                      *)
(*   SpecWindow    two-pointer windowed composite count                    *)
(*   SpecSolver    eigensolver wrappers and the direct comparison          *)
(*   SpecFit       least-squares fit and evaluation                        *)
(*   SpecOperator  Laplacian stencils and Hamiltonian assembly             *)
(*   SpecCkpt      batched, checkpointed eigen-extraction                  *)
(*   SpecSweep     parameter sweeps (prime count, beta, eta)               *)
(*   SpecUpTo      nm_primes_up_to                                         *)
(*   SpecField     curvature field transforms and the log-grid pipeline    *)
(*   SpecTrans     two field transforms applied in both orders             *)
(*   SpecRhzMain   command line of rhz.py                                  *)
(*   SpecDyn       nm_dynamic_curvature                                    *)
(* Real numbers are modelled by integers or by exact fractions <<n, d>>.   *)
(***************************************************************************)
EXTENDS Integers, Sequences, FiniteSets, TLC

VARIABLES
    \* ---- generate_primes --------------------------------------------
    gp_pc,        \* "idle" | "sieving" | "returned"
    gp_file,      \* which file's generate_primes is running
    num_primes,   \* the requested count
    limit,        \* current sieve limit
    is_prime,     \* set of indices whose is_prime[] entry is True
    gp_p,         \* loop variable p of the crossing-out loop
    gp_retries,   \* how many times the limit was grown
    gp_ret,       \* the returned array (a sequence)
    \* ---- windowed composite fraction ---------------------------------
    w_pc,         \* "idle" | "running" | "done"
    w_file,       \* "rhz" (build_operator) | "real_spectrum"
    w_primes,     \* the sorted prime array handed in
    n_vec,        \* the grid points, in input order
    window,       \* window radius
    w_i,          \* number of grid points already processed
    w_j,          \* the single running pointer j into w_primes (0-based)
    w_count,      \* per grid point: j - left, the primes counted
    w_out,        \* per grid point: comp = 1 - count/(2*window+1), a fraction
    \* ---- spectral solver wrappers and the direct comparison -----------
    sv_pc,        \* "idle" | "called" | "eigsh_done" | "returned" | "raised"
                  \*        | "compared" | "crashed"
    sv_file,      \* "rhz" | "n_grid" | "nm_hamiltonian"
    spectrum,     \* the eigenvalues of H, ascending (N = Len(spectrum))
    sv_target,    \* the count the caller asked for
    sv_k,         \* the k handed to eigsh
    eig_status,   \* "none" | "ok" | "ArpackNoConvergence" | "ValueError"
    eig_vals,     \* eigsh's array, or the exception's .eigenvalues
    sv_ret,       \* the wrapper's return value
    cmp_status,   \* "none" | "ok" | "ValueError"
    cmp_len,      \* number of relative errors the comparison produced
    \* ---- model fitter / evaluator -------------------------------------
    fit_pc,       \* "idle" | "called" | "fitted" | "evaluated" | "crashed"
    fit_file,     \* "nm_hamiltonian" | "hilbert_grid"
    fit_model,    \* "affine" | "log_n" | "log_lambda"
    lam,          \* the spectrum handed to the fit (eigs)
    zeros,        \* the reference sequence
    fit_n,        \* requested fit prefix length
    eval_n,       \* requested evaluation prefix length
    fit_x,        \* the eigenvalue samples handed to the least-squares fit
    fit_y,        \* the reference samples handed to the least-squares fit
    fit_params,   \* affine: <<A, B, D>> with a = A/D, b = B/D; else <<>>
    eval_used,    \* the eval_n actually used by the evaluation
    rel_err,      \* affine: the relative errors in percent, as fractions
    fit_entry,    \* "main" (fit, then evaluate) | "evaluate_model" (direct call)
    z_hat,        \* the mapped eigenvalues, as fractions
    fit_exc,      \* "none" | "ValueError" (unknown model)
    \* ---- Laplacian stencils and operator assembly ---------------------
    op_pc,        \* "idle" | "called" | "stencil" | "built" | "raised"
    op_file,      \* which builder pair is running
    op_h,         \* grid spacings h[i] = t[i+1] - t[i] (N-1 of them)
    op_V,         \* the potential array
    main_L,       \* the stencil's main diagonal (fractions)
    off_minus,    \* the stencil's sub-diagonal
    off_plus,     \* the stencil's super-diagonal
    H_lower,      \* H[i+1, i], i = 1..N-1
    H_main,       \* H[i, i]
    H_upper,      \* H[i, i+1]
    \* ---- batched, checkpointed extraction (real-spectrum-vs-zeros) ----
    ck_pc,        \* "idle" | "resume" | "loop" | "save" | "writing"
                  \*        | "stop_check" | "done" | "aborted" | "crashed"
    ck_spectrum,  \* the eigenvalues of H, ascending
    ck_target,    \* target
    ck_t,         \* zetazero(target).imag
    computed_eigs,\* the accumulated list
    ck_start,     \* loop variable start
    eigvals,      \* the returned array computed_eigs[:target]
    ck_file,      \* the checkpoint path: [exists, data, complete]
    ck_exc,       \* "none" | "UnpicklingError" | "ArpackNoConvergence"
    ck_runs,      \* number of process starts so far
    ck_load,      \* history: what the resume step of this run found
    ck_from,      \* history: len(computed_eigs) after the resume step
    ck_log,       \* history: the start of every eigsh call, all runs
    ck_committed, \* history: the last checkpoint written completely
    ck_pending,   \* history: the checkpoint of the latest write begun
    ck_clean,     \* history: no interruption fell inside a checkpoint write
    ck_writer,    \* configuration of the run that last wrote the checkpoint
    ck_foreign,   \* the loaded checkpoint was written for another configuration
    ck_same,      \* every run so far had the same arguments
    \* ---- parameter sweeps ----------------------------------------------
    sw_pc,        \* "idle" | "running" | "returned" | "raised"
    sw_file,      \* "sweep_prime_counts" | "sweep_beta_values" | "sweep_eta"
    sw_vals,      \* the swept values, in input order
    sw_bad,       \* the values at which the eigensolver raises
    sw_tab,       \* per value: the errors the fit of that operator yields
    sw_field,     \* the shared curvature field k_vals
    sw_field0,    \* history: the shared field as handed to the sweep
    sw_i,         \* number of sweep points completed
    sw_rows,      \* the rows appended so far
    sw_sieves,    \* number of generate_primes calls made by the sweep
    sw_exc,       \* "none" | the exception that left the sweep
    best_eta,     \* sweep_eta: the best eta so far, -1 = None
    best_score,   \* sweep_eta: its score in tenths, -1 = inf
    \* ---- nm_primes_up_to (n-grid-operator) ------------------------------
    up_pc,        \* "idle" | "sieving" | "returned"
    up_N,         \* the argument N
    up_sieve,     \* set of indices whose sieve[] entry is True
    up_p,         \* loop variable p
    up_ret,       \* the returned array
    \* ---- curvature field pipeline (hilbert-grid main) -----------------
    fd_pc,        \* "idle" | "called" | "built" | "downsampled" | "smoothed"
                  \* | "resampled" | "assembled" | "raised"
    fd_n,         \* number of primes the builder's loop keeps
    fd_win,       \* SMOOTHING_WINDOW
    fd_factor,    \* CURVATURE_DOWNSAMPLE
    fd_levels,    \* NUM_LEVELS
    fd_p,         \* p_used, the support
    fd_k,         \* k_vals, as integers over the common denominator fd_scale
    fd_scale,     \* common denominator of fd_k
    fd_t,         \* t_grid returned by resample_to_log_grid, as fractions
    fd_klog,      \* k_vals after resampling, as fractions
    fd_h,         \* spacings of the grid the Laplacian stencil was built on
    fd_exc,       \* "none" | "ValueError" | "IndexError"
    fd_first,     \* what the first compute_curvature_field call returned
    fd_again,     \* <<>>, or what a second call with the same arguments returned
    \* ---- two post-processing transforms, in both orders --------------
    tr_pc,        \* "idle" | "called" | "applied" | "swapped"
    tr_in,        \* the input field [k, scale]
    tr_first,     \* "smooth" | "downsample" | "tail"
    tr_second,    \* the other transform
    tr_w,         \* smoothing window
    tr_f,         \* downsample factor
    tr_eta,       \* eta of the tail correction
    tr_ab,        \* second(first(input))
    tr_ba,        \* first(second(input))
    tr_after,     \* the input array after the calls
    \* ---- rhz.py command line ----------------------------------------
    rz_pc,        \* "idle" | "parsed" | "checked" | "sieved" | "built"
                  \* | "eigsh_called" | "exited"
    rz_N,         \* --N
    rz_arg,       \* --target-zeros as given
    rz_target,    \* main's target after the checks
    rz_warned,    \* the warning was printed
    rz_sieved,    \* sieve_primes ran
    rz_built,     \* build_operator returned
    rz_k,         \* the k eigsh was called with, -1 before the call
    rz_status,    \* exit status of the process, -1 while it runs
    \* ---- nm_dynamic_curvature ---------------------------------------
    dy_pc,        \* "idle" | "running" | "returned" | "raised"
    dy_N,         \* N
    dy_b,         \* b
    dy_c,         \* c
    dy_kappa,     \* kappa_param
    dy_n,         \* loop variable n
    dy_x,         \* x
    dy_sigma,     \* sigma
    dy_kd         \* kappa_d

sieveVars == <<gp_pc, gp_file, num_primes, limit, is_prime, gp_p, gp_retries, gp_ret>>
windowVars == <<w_pc, w_file, w_primes, n_vec, window, w_i, w_j, w_count, w_out>>
solverVars == <<sv_pc, sv_file, spectrum, sv_target, sv_k, eig_status, eig_vals,
                sv_ret, cmp_status, cmp_len>>

fitVars == <<fit_pc, fit_file, fit_model, lam, zeros, fit_n, eval_n, fit_x, fit_y,
             fit_params, eval_used, rel_err, fit_entry, z_hat, fit_exc>>

opVars == <<op_pc, op_file, op_h, op_V, main_L, off_minus, off_plus,
            H_lower, H_main, H_upper>>

ckptVars == <<ck_pc, ck_spectrum, ck_target, ck_t, computed_eigs, ck_start,
              eigvals, ck_file, ck_exc, ck_runs, ck_load, ck_from, ck_log,
              ck_committed, ck_pending, ck_clean, ck_writer, ck_foreign,
              ck_same>>

sweepVars == <<sw_pc, sw_file, sw_vals, sw_bad, sw_tab, sw_field, sw_field0,
               sw_i, sw_rows, sw_sieves, sw_exc, best_eta, best_score>>

upToVars == <<up_pc, up_N, up_sieve, up_p, up_ret>>

fieldVars == <<fd_pc, fd_n, fd_win, fd_factor, fd_levels, fd_p, fd_k, fd_scale,
               fd_t, fd_klog, fd_h, fd_exc, fd_first, fd_again>>

transVars == <<tr_pc, tr_in, tr_first, tr_second, tr_w, tr_f, tr_eta, tr_ab, tr_ba,
               tr_after>>

rhzVars == <<rz_pc, rz_N, rz_arg, rz_target, rz_warned, rz_sieved, rz_built, rz_k,
             rz_status>>

dynVars == <<dy_pc, dy_N, dy_b, dy_c, dy_kappa, dy_n, dy_x, dy_sigma, dy_kd>>

vars == <<sieveVars, windowVars, solverVars, fitVars, opVars, ckptVars,
          sweepVars, upToVars, fieldVars, transVars, rhzVars, dynVars>>

\* what each component leaves alone
notSieve == <<windowVars, solverVars, fitVars, opVars, ckptVars, sweepVars, upToVars, fieldVars, transVars, rhzVars,
    dynVars>>
notWindow == <<sieveVars, solverVars, fitVars, opVars, ckptVars, sweepVars, upToVars, fieldVars, transVars, rhzVars,
    dynVars>>
notSolver == <<sieveVars, windowVars, fitVars, opVars, ckptVars, sweepVars, upToVars, fieldVars, transVars, rhzVars,
    dynVars>>
notFit == <<sieveVars, windowVars, solverVars, opVars, ckptVars, sweepVars, upToVars, fieldVars, transVars, rhzVars,
    dynVars>>
notOp == <<sieveVars, windowVars, solverVars, fitVars, ckptVars, sweepVars, upToVars, fieldVars, transVars, rhzVars,
    dynVars>>
notCkpt == <<sieveVars, windowVars, solverVars, fitVars, opVars, sweepVars, upToVars, fieldVars, transVars, rhzVars,
    dynVars>>
notSweep == <<sieveVars, windowVars, solverVars, fitVars, opVars, ckptVars, upToVars, fieldVars, transVars, rhzVars,
    dynVars>>
notUpTo == <<sieveVars, windowVars, solverVars, fitVars, opVars, ckptVars, sweepVars, fieldVars, transVars, rhzVars,
    dynVars>>
notField == <<sieveVars, windowVars, solverVars, fitVars, opVars, ckptVars, sweepVars, upToVars, transVars, rhzVars,
    dynVars>>
notTrans == <<sieveVars, windowVars, solverVars, fitVars, opVars, ckptVars, sweepVars, upToVars, fieldVars, rhzVars,
    dynVars>>
notRhz == <<sieveVars, windowVars, solverVars, fitVars, opVars, ckptVars, sweepVars, upToVars, fieldVars, transVars,
    dynVars>>
notDyn == <<sieveVars, windowVars, solverVars, fitVars, opVars, ckptVars, sweepVars, upToVars, fieldVars, transVars, rhzVars>>

(***************************************************************************)
(* Bounds of the model.                                                    *)
(***************************************************************************)
MaxCount == 12     \* largest requested prime count
MaxGrid == 8       \* largest grid size N of the windowed count
MaxWindow == 3     \* largest small window radius tried
MaxDim == 4        \* largest operator dimension N handed to a solver wrapper
MaxK == 3          \* largest eigenvalue count requested from a wrapper
MaxFit == 4        \* largest fit_n / eval_n requested
MaxPts == 4        \* largest number of grid points of an assembled operator
MaxStep == 2       \* largest grid spacing, in units of the smallest one
CkDim == 120       \* dimension N of the operator of the checkpointed run
CkChunk == 64      \* list entries that reach the disk per buffer flush
MaxRuns == 3       \* process starts of one checkpointed computation
MaxSweep == 3      \* largest number of sweep points
MaxParam == 2      \* swept values are 0..MaxParam
MaxUpTo == 50      \* largest N handed to nm_primes_up_to
MaxField == 5      \* largest number of support points of a curvature field
MaxSmooth == 6     \* largest smoothing window tried
MaxFactor == 3     \* largest downsample factor tried
MaxLevels == 2     \* largest NUM_LEVELS tried
MaxMainN == 5      \* largest --N of rhz.py tried
MaxMainT == 6      \* largest --target-zeros of rhz.py tried
MaxDyn == 4        \* largest N handed to nm_dynamic_curvature

(***************************************************************************)
(* Generic helpers.                                                        *)
(***************************************************************************)
Min(a, b) == IF a <= b THEN a ELSE b
Max(a, b) == IF a >= b THEN a ELSE b
Abs(a) == IF a >= 0 THEN a ELSE -a

\* int(np.sqrt(n)) for a non-negative integer n
ISqrt(n) == CHOOSE r \in 0..n : r * r <= n /\ (r + 1) * (r + 1) > n

\* np.nonzero(mask)[0]: the indices of a set, as an ascending sequence
SortedSeq(S) ==
    IF S = {} THEN <<>>
    ELSE LET lo == CHOOSE x \in S : \A y \in S : x <= y
             hi == CHOOSE x \in S : \A y \in S : x >= y
             \* pos[k]: the 1-based position of lo + k - 1 in the result
             pos == [k \in 1..(hi - lo + 1) |->
                        IF (lo + k - 1) \in S
                        THEN Cardinality({y \in S : y <= lo + k - 1})
                        ELSE 0] \o <<>>
         IN  [r \in 1..Cardinality(S) |->
                 lo - 1 + (CHOOSE k \in 1..(hi - lo + 1) : pos[k] = r)] \o <<>>

\* a[:n] for n >= 0
Prefix(a, n) == SubSeq(a, 1, Min(n, Len(a)))

Range(a) == {a[i] : i \in 1..Len(a)}

StrictlyIncreasing(a) == \A i \in 1..(Len(a) - 1) : a[i] < a[i + 1]
NonDecreasing(a) == \A i \in 1..(Len(a) - 1) : a[i] <= a[i + 1]

\* the array left in the order it came in
KeepOrder(a) == a \o <<>>

\* np.sort of an array / list.sort() (duplicates kept): entry i goes to the
\* position given by the number of entries that sort before it
SortAsc(a) ==
    LET b == a \o <<>>
        n == Len(b)
        rank == [i \in 1..n |->
                    Cardinality({j \in 1..n :
                        b[j] < b[i] \/ (b[j] = b[i] /\ j <= i)})] \o <<>>
    IN  [r \in 1..n |-> b[CHOOSE i \in 1..n : rank[i] = r]] \o <<>>

RECURSIVE SumSeq(_)
SumSeq(a) == IF a = <<>> THEN 0 ELSE Head(a) + SumSeq(Tail(a))

Reverse(a) == [i \in 1..Len(a) |-> a[Len(a) + 1 - i]]

\* exact fractions <<numerator, denominator>>, denominator > 0
FracEq(a, b) == a[1] * b[2] = b[1] * a[2]
FracAddInt(a, v) == <<a[1] + v * a[2], a[2]>>

\* 100 * log(n) for n = 1..6, rounded
LogTable == <<0, 69, 110, 139, 161, 179>>

\* mathematical primality, by trial division (the reference for the claims)
IsPrimeNumber(n) == n >= 2 /\ \A d \in 2..(n - 1) : n % d # 0

(***************************************************************************)
(* 1. Prime sieve: approx_nth_prime and generate_primes.                   *)
(***************************************************************************)
GenFiles == {"nm_hamiltonian", "hilbert_grid", "prime_index_curvature"}

\* int(n*(log n + log log n) + 10) for n = 6..40, as evaluated in doubles
ApproxTable ==
    <<24, 28, 32, 36, 41, 45, 50, 55, 60, 65, 70, 75, 81, 86, 91, 97, 102,
      108, 114, 119, 125, 131, 137, 142, 148, 154, 160, 166, 172, 178, 184,
      191, 197, 203, 209>>

\* an estimate below the n-th prime
UndershootEstimate(n) == 10

approx_nth_prime(n) == IF n < 6 THEN 15 ELSE ApproxTable[n - 5]

\* target = num_primes + 1 in prime-index-curvature.py (2 is dropped later)
GenTarget(file, n) == IF file = "prime_index_curvature" THEN n + 1 ELSE n

\* is_prime = ones(limit+1); is_prime[:2] = False
FreshMask(lim) == 2..lim

\* is_prime[p*p : limit+1 : p] = False, wrongly started one stride late
CrossOutLate(mask, p, lim) ==
    mask \ {m \in (p * p + p)..lim : (m - p * p) % p = 0}

\* is_prime[p*p : limit+1 : p] = False
CrossOut(mask, p, lim) ==
    mask \ {m \in (p * p)..lim : (m - p * p) % p = 0}

\* primes = np.nonzero(is_prime)[0]  (and primes[primes != 2] in one file)
SievedPrimes(file, mask) ==
    IF file = "prime_index_curvature" THEN SortedSeq(mask \ {2})
    ELSE SortedSeq(mask)

\* limit = int(limit * 1.5)
GrowLimit(lim) == (3 * lim) \div 2

GenCall ==
    /\ gp_pc = "idle"
    /\ \E f \in GenFiles, n \in 0..MaxCount :
          /\ gp_file' = f
          /\ num_primes' = n
          /\ limit' = approx_nth_prime(GenTarget(f, n))
          /\ is_prime' = FreshMask(approx_nth_prime(GenTarget(f, n)))
    /\ gp_p' = 2
    /\ gp_pc' = "sieving"
    /\ UNCHANGED <<gp_retries, gp_ret>>
    /\ UNCHANGED notSieve

\* one iteration of: for p in range(2, int(sqrt(limit)) + 1)
GenSieveStep ==
    /\ gp_pc = "sieving"
    /\ gp_p <= ISqrt(limit)
    /\ is_prime' = IF gp_p \in is_prime THEN CrossOut(is_prime, gp_p, limit)
                   ELSE is_prime
    /\ gp_p' = gp_p + 1
    /\ UNCHANGED <<gp_pc, gp_file, num_primes, limit, gp_retries, gp_ret>>
    /\ UNCHANGED notSieve

\* after the for loop: return primes[:num_primes] or grow the limit and retry
GenCheck ==
    /\ gp_pc = "sieving"
    /\ gp_p > ISqrt(limit)
    /\ LET primes_found == SievedPrimes(gp_file, is_prime)
       IN  IF Len(primes_found) >= num_primes
           THEN /\ gp_ret' = Prefix(primes_found, num_primes)
                /\ gp_pc' = "returned"
                /\ UNCHANGED <<limit, is_prime, gp_p, gp_retries>>
           ELSE /\ limit' = GrowLimit(limit)
                /\ is_prime' = FreshMask(GrowLimit(limit))
                /\ gp_p' = 2
                /\ gp_retries' = gp_retries + 1
                /\ UNCHANGED <<gp_pc, gp_ret>>
    /\ UNCHANGED <<gp_file, num_primes>>
    /\ UNCHANGED notSieve

SieveInit ==
    /\ gp_pc = "idle"
    /\ gp_file = "nm_hamiltonian"
    /\ num_primes = 0
    /\ limit = 0
    /\ is_prime = {}
    /\ gp_p = 0
    /\ gp_retries = 0
    /\ gp_ret = <<>>

SieveNext == GenCall \/ GenSieveStep \/ GenCheck


\* first prime of the file's convention
FirstPrime(file) == IF file = "prime_index_curvature" THEN 3 ELSE 2

\* the n-th prime (n >= 1) at or above lo, by counting
NthPrimeFrom(lo, n) ==
    CHOOSE q \in lo..(20 * n + 20) :
        IsPrimeNumber(q) /\ Cardinality({r \in lo..q : IsPrimeNumber(r)}) = n

\* C1: for every requested count N >= 1 generate_primes returns exactly N
\* strictly increasing values, all prime, which are the first N primes of the
\* file's convention, so that the N-th value is the true N-th prime.
C1_FirstNPrimes ==
    (gp_pc = "returned" /\ num_primes >= 1) =>
        /\ Len(gp_ret) = num_primes
        /\ StrictlyIncreasing(gp_ret)
        /\ \A i \in 1..Len(gp_ret) : IsPrimeNumber(gp_ret[i])
        /\ \A i \in 1..Len(gp_ret) :
              gp_ret[i] = NthPrimeFrom(FirstPrime(gp_file), i)

C1_Witness ==
    /\ gp_pc = "returned"
    /\ gp_file = "prime_index_curvature"
    /\ num_primes = 7
    /\ gp_ret = <<3, 5, 7, 11, 13, 17, 19>>

WindowFiles == {"rhz", "real_spectrum"}

\* sieve_primes(limit): the crossing-out loop for i in range(2, isqrt+1)
RECURSIVE SieveLoop(_, _, _)
SieveLoop(mask, i, lim) ==
    IF i > ISqrt(lim) THEN mask
    ELSE SieveLoop(IF i \in mask THEN CrossOut(mask, i, lim) ELSE mask, i + 1, lim)

sieve_primes(lim) == SortedSeq(SieveLoop(FreshMask(lim), 2, lim))

\* n_vals = arange(2, N+2) in rhz;  n = arange(2, N+1) in real-spectrum
GridPoints(file, N) ==
    IF file = "rhz" THEN [k \in 1..N |-> k + 1] ELSE [k \in 1..(N - 1) |-> k + 1]

\* window = 120 is fixed in rhz.build_operator; local_composite_fraction takes
\* it as a parameter (default 80, passed as 100 by main)
RhzWindow == 120
DefaultWindow == 80
MainWindow == 100
WindowChoices(file) ==
    IF file = "rhz" THEN {RhzWindow}
    ELSE (1..MaxWindow) \cup {DefaultWindow, MainWindow}

\* while j < L and primes[j] < bound: j += 1
RECURSIVE SkipBelow(_, _, _)
SkipBelow(primes, j, bound) ==
    IF j < Len(primes) /\ primes[j + 1] < bound
    THEN SkipBelow(primes, j + 1, bound) ELSE j

\* while j < L and primes[j] <= bound: j += 1
RECURSIVE SkipUpTo(_, _, _)
SkipUpTo(primes, j, bound) ==
    IF j < Len(primes) /\ primes[j + 1] <= bound
    THEN SkipUpTo(primes, j + 1, bound) ELSE j

\* 1.0 - count / (2*window + 1), as the exact fraction <<numerator, denominator>>
CompFraction(count, w) == <<(2 * w + 1) - count, 2 * w + 1>>

WinCall ==
    /\ w_pc = "idle"
    /\ \E f \in WindowFiles, N \in 2..MaxGrid :
          /\ w_file' = f
          /\ w_primes' = sieve_primes(N)
          /\ n_vec' = GridPoints(f, N)
          /\ \E w \in WindowChoices(f) : window' = w
    /\ w_i' = 0
    /\ w_j' = 0
    /\ w_count' = <<>>
    /\ w_out' = <<>>
    /\ w_pc' = "running"
    /\ UNCHANGED notWindow

\* one iteration of the for loop over the grid points
WinStep ==
    /\ w_pc = "running"
    /\ w_i < Len(n_vec)
    /\ LET n == n_vec[w_i + 1]
           left == SkipBelow(w_primes, w_j, n - window)
           right == SkipUpTo(w_primes, left, n + window)
       IN  /\ w_j' = right
           /\ w_count' = Append(w_count, right - left)
           /\ w_out' = Append(w_out, CompFraction(right - left, window))
    /\ w_i' = w_i + 1
    /\ UNCHANGED <<w_pc, w_file, w_primes, n_vec, window>>
    /\ UNCHANGED notWindow

WinReturn ==
    /\ w_pc = "running"
    /\ w_i = Len(n_vec)
    /\ w_pc' = "done"
    /\ UNCHANGED <<w_file, w_primes, n_vec, window, w_i, w_j, w_count, w_out>>
    /\ UNCHANGED notWindow

WindowInit ==
    /\ w_pc = "idle"
    /\ w_file = "rhz"
    /\ w_primes = <<>>
    /\ n_vec = <<>>
    /\ window = 0
    /\ w_i = 0
    /\ w_j = 0
    /\ w_count = <<>>
    /\ w_out = <<>>

WindowNext == WinCall \/ WinStep \/ WinReturn

\* brute force: the primes p of the array with n - window <= p <= n + window
BruteCount(primes, n, w) ==
    Cardinality({k \in 1..Len(primes) : n - w <= primes[k] /\ primes[k] <= n + w})

\* C2: at every grid point the fast two-pointer count equals the brute-force
\* count of primes in [n - window, n + window], hence comp(n) equals the
\* brute-force composite fraction at every n, not only at the first one.
C2_WindowMatchesBruteForce ==
    \A k \in 1..Len(w_out) :
        /\ w_count[k] = BruteCount(w_primes, n_vec[k], window)
        /\ w_out[k] = CompFraction(BruteCount(w_primes, n_vec[k], window), window)

\* the limit the primes handed in were sieved up to: sieve_primes(N), with
\* N grid points 2..N+1 in rhz and N-1 grid points 2..N in real-spectrum
SievedUpTo == IF w_file = "rhz" THEN Len(n_vec) ELSE Len(n_vec) + 1

\* C16: every sample kept in the field has its whole window [n-R, n+R] inside
\* the sieved integer range [2, limit]; points whose window reaches below 2
\* or above the sieved limit are not in the output.
C16_WindowInsideSievedRange ==
    \A k \in 1..Len(w_out) :
        /\ n_vec[k] - window >= 2
        /\ n_vec[k] + window <= SievedUpTo

(***************************************************************************)
(* 3. Spectral solver wrappers: rhz.compute_eigenvalues,                   *)
(*    n-grid-operator.compute_evals, nm_hamiltonian.lowest_eigenvalues,    *)
(*    and the element-wise comparison of rhz.main / n-grid-operator.run.   *)
(*                                                                         *)
(* H is represented by its spectrum.  scipy's eigsh(H, k, sigma) is the    *)
(* library contract: it needs 1 <= k < N, and either converges to the k    *)
(* eigenvalues nearest sigma (which='SM': nearest 0), in an order the      *)
(* caller must not rely on, or raises ArpackNoConvergence carrying the     *)
(* eigenvalues that did converge (fewer than k, possibly none).            *)
(***************************************************************************)
SolverFiles == {"rhz", "n_grid", "nm_hamiltonian"}

\* the operators tried: N distinct eigenvalues lo+2, lo+4, ..., ascending
SpectrumLows == {-3, 0}
MakeSpectrum(N, lo) == [i \in 1..N |-> lo + 2 * i]

\* the index sets of size k whose eigenvalues are nearest to sigma
\* (distances compared after scaling by den: sigma = snum/den)
NearestSets(spec, k, snum, den) ==
    {S \in SUBSET (1..Len(spec)) :
        /\ Cardinality(S) = k
        /\ \A i \in S, j \in (1..Len(spec)) \ S :
              Abs(den * spec[i] - snum) <= Abs(den * spec[j] - snum)}

\* an array holding the eigenvalues with indices S, ascending or descending
EigArrays(spec, S) ==
    LET idx == SortedSeq(S)
        asc == SortAsc([i \in 1..Cardinality(S) |-> spec[idx[i]]])
    IN  {asc, Reverse(asc)}

\* k = target (clamped to N-1) in rhz; k as given in n-grid; min(k, N-2) in
\* nm_hamiltonian
ClampK(file, k, N) ==
    IF file = "rhz" THEN (IF k >= N THEN N - 1 ELSE k)
    ELSE IF file = "nm_hamiltonian" THEN Min(k, N - 2)
    ELSE k

SolveCall ==
    /\ sv_pc = "idle"
    /\ \E f \in SolverFiles, N \in 2..MaxDim, lo \in SpectrumLows, k \in 1..MaxK :
          /\ sv_file' = f
          /\ spectrum' = MakeSpectrum(N, lo)
          /\ sv_target' = k
          /\ sv_k' = ClampK(f, k, N)
    /\ sv_pc' = "called"
    /\ UNCHANGED <<eig_status, eig_vals, sv_ret, cmp_status, cmp_len>>
    /\ UNCHANGED notSolver

\* eigsh(H, k=sv_k, sigma=0 / which='SM')
EigshRun ==
    /\ sv_pc = "called"
    /\ \/ /\ (sv_k < 1 \/ sv_k >= Len(spectrum))
          /\ eig_status' = "ValueError"
          /\ eig_vals' = <<>>
       \/ /\ sv_k >= 1 /\ sv_k < Len(spectrum)
          /\ \E S \in NearestSets(spectrum, sv_k, 0, 1) :
                \E a \in EigArrays(spectrum, S) :
                   /\ eig_status' = "ok"
                   /\ eig_vals' = a
       \/ /\ sv_k >= 1 /\ sv_k < Len(spectrum)
          /\ \E S \in NearestSets(spectrum, sv_k, 0, 1) :
                \E C \in (SUBSET S) \ {S} :
                   \E a \in EigArrays(spectrum, C) :
                      /\ eig_status' = "ArpackNoConvergence"
                      /\ eig_vals' = a
    /\ sv_pc' = "eigsh_done"
    /\ UNCHANGED <<sv_file, spectrum, sv_target, sv_k, sv_ret, cmp_status, cmp_len>>
    /\ UNCHANGED notSolver

\* what rhz.compute_eigenvalues does with eigsh's outcome
RhzHandle(status, vals, k) ==
    IF status = "ok" THEN [pc |-> "returned", ret |-> Prefix(SortAsc(vals), k)]
    ELSE IF status = "ArpackNoConvergence" /\ Len(vals) > 0
         THEN [pc |-> "returned", ret |-> Prefix(SortAsc(vals), k)]
    ELSE [pc |-> "raised", ret |-> <<>>]

\* what n-grid-operator.compute_evals does with eigsh's outcome
NGridHandle(status, vals, k) ==
    IF status = "ok" THEN [pc |-> "returned", ret |-> SortAsc(vals)]
    ELSE IF status = "ArpackNoConvergence"
         THEN [pc |-> "returned", ret |-> SortAsc(Prefix(vals, k))]
    ELSE [pc |-> "raised", ret |-> <<>>]

\* what nm_hamiltonian.lowest_eigenvalues does with eigsh's outcome
NmHandle(status, vals, k) ==
    IF status = "ok" THEN [pc |-> "returned", ret |-> SortAsc(vals)]
    ELSE [pc |-> "raised", ret |-> <<>>]

SolveHandle(file, status, vals, k) ==
    IF file = "rhz" THEN RhzHandle(status, vals, k)
    ELSE IF file = "n_grid" THEN NGridHandle(status, vals, k)
    ELSE NmHandle(status, vals, k)

SolveReturn ==
    /\ sv_pc = "eigsh_done"
    /\ sv_pc' = SolveHandle(sv_file, eig_status, eig_vals, sv_k).pc
    /\ sv_ret' = SolveHandle(sv_file, eig_status, eig_vals, sv_k).ret
    /\ UNCHANGED <<sv_file, spectrum, sv_target, sv_k, eig_status, eig_vals,
                   cmp_status, cmp_len>>
    /\ UNCHANGED notSolver

\* numpy broadcasting of two 1-d arrays of lengths m and t: the length of
\* evals - true, or -1 when the shapes do not broadcast (ValueError)
BroadcastLen(m, t) ==
    IF m = t THEN m ELSE IF m = 1 THEN t ELSE IF t = 1 THEN m ELSE -1

\* the reference array has the count the eigensolver was asked for:
\* range(target) after main's clamp in rhz, range(num_zeros) in n-grid
ReferenceLen(file, target, N) ==
    IF file = "rhz" THEN (IF target >= N THEN N - 1 ELSE target) ELSE target

\* err = abs((evals - true) / true) * 100; err.mean(); err.max()
Compare ==
    /\ sv_pc = "returned"
    /\ sv_file \in {"rhz", "n_grid"}
    /\ LET n == BroadcastLen(Len(sv_ret),
                             ReferenceLen(sv_file, sv_target, Len(spectrum)))
       IN  IF n >= 1
           THEN /\ cmp_status' = "ok"
                /\ cmp_len' = n
                /\ sv_pc' = "compared"
           ELSE /\ cmp_status' = "ValueError"
                /\ cmp_len' = 0
                /\ sv_pc' = "crashed"
    /\ UNCHANGED <<sv_file, spectrum, sv_target, sv_k, eig_status, eig_vals, sv_ret>>
    /\ UNCHANGED notSolver

SolverInit ==
    /\ sv_pc = "idle"
    /\ sv_file = "rhz"
    /\ spectrum = <<>>
    /\ sv_target = 0
    /\ sv_k = 0
    /\ eig_status = "none"
    /\ eig_vals = <<>>
    /\ sv_ret = <<>>
    /\ cmp_status = "none"
    /\ cmp_len = 0

SolverNext == SolveCall \/ EigshRun \/ SolveReturn \/ Compare

\* C3: when eigsh fails to converge, the wrapper does not raise: it returns
\* the eigenvalues that did converge (fewer than K, possibly none), sorted
\* ascending and truncated to the first K, in every pipeline variant.
C3_NoRaiseOnNonConvergence ==
    (eig_status = "ArpackNoConvergence" /\ sv_pc \in {"returned", "raised"}) =>
        /\ sv_pc = "returned"
        /\ sv_ret = Prefix(SortAsc(eig_vals), sv_k)

\* C17: the spectrum returned by every solver entry point is non-decreasing
\* and has at most the requested K entries (at most N-2 from
\* lowest_eigenvalues, at most N-1 from rhz.compute_eigenvalues).
C17_SpectrumSortedAndShort ==
    sv_pc \in {"returned", "compared", "crashed"} =>
        /\ NonDecreasing(sv_ret)
        /\ Len(sv_ret) <= sv_target
        /\ sv_file = "nm_hamiltonian" => Len(sv_ret) <= Len(spectrum) - 2
        /\ sv_file = "rhz" => Len(sv_ret) <= Len(spectrum) - 1

C17_Witness ==
    /\ sv_pc = "returned"
    /\ sv_file = "rhz"
    /\ sv_target = 3
    /\ Len(spectrum) = 3
    /\ Len(eig_vals) = 2
    /\ eig_vals[1] > eig_vals[2]
    /\ Len(sv_ret) = 2

\* C4: when the wrapper returned fewer eigenvalues than requested, the
\* comparison against the reference sequence does not crash and is computed
\* on the clamped common length.
C4_ShortSpectrumCompared ==
    (sv_pc \in {"compared", "crashed"}
       /\ Len(sv_ret) < ReferenceLen(sv_file, sv_target, Len(spectrum))) =>
        /\ sv_pc = "compared"
        /\ cmp_status = "ok"
        /\ cmp_len = Len(sv_ret)

(***************************************************************************)
(* 4. Model fitter / evaluator: nm_hamiltonian.fit_affine / evaluate_fit   *)
(*    as called by run_model, and prime-index-curvature-hilbert-grid's     *)
(*    fit_affine / fit_log_n / fit_log_lambda / evaluate_model as called   *)
(*    by main.  The affine fit is exact least squares over fractions; of   *)
(*    the two log models only the sample vectors are represented.          *)
(***************************************************************************)
FitFiles == {"nm_hamiltonian", "hilbert_grid"}

\* the model tags tried; "quadratic" stands for any unrecognised tag
FitModels(file) ==
    IF file = "nm_hamiltonian" THEN {"affine"}
    ELSE {"affine", "log_n", "log_lambda", "quadratic"}

\* a dispatch that lets every tag through
AnyModel(model) == TRUE

\* the if / elif chain of main and of evaluate_model
KnownModel(model) == model \in {"affine", "log_n", "log_lambda"}

\* coefficient triples (a, c, b) standing for a least-squares solution of
\* the log models, and for the params of a direct evaluate_model call
ParamSamples == {<<1, 0, 0>>, <<3, 2, 7>>}

\* spectra and reference sequences tried (prefixes of these)
LamSamples == <<1, 2, 4>>
ZeroSamples == <<14, 21, 25>>
\* the synthetic reference ref = 3*eig + 7
SyntheticRef(x) == [i \in 1..Len(x) |-> 3 * x[i] + 7]

\* the fit_n the caller passes: run_model passes min(fit_n, len(zeros))
FitArg(file, n, zs) == IF file = "nm_hamiltonian" THEN Min(n, Len(zs)) ELSE n

\* the prefix length a fit function takes, clamped to the shorter array
FitPrefixLen(n, x, zs) == Min(n, Min(Len(x), Len(zs)))

\* x = eigs[:fit_n]: nm_hamiltonian.fit_affine slices without clamping
\* (each array is cut at its own length), the hilbert-grid fits clamp first
FitX(file, x, zs, n) ==
    IF file = "nm_hamiltonian" THEN Prefix(x, n) ELSE Prefix(x, FitPrefixLen(n, x, zs))

\* y = zeros[:fit_n]
FitY(file, x, zs, n) ==
    IF file = "nm_hamiltonian" THEN Prefix(zs, n) ELSE Prefix(zs, FitPrefixLen(n, x, zs))

\* np.polyfit / np.linalg.lstsq accept the samples: polyfit needs a
\* non-empty x and len(x) = len(y)
LeastSquaresAccepts(model, x, y) ==
    IF model = "affine" THEN Len(x) >= 1 /\ Len(x) = Len(y) ELSE Len(x) = Len(y)

Dot(x, y) == SumSeq([i \in 1..Len(x) |-> x[i] * y[i]])

\* a fit that hands back the intercept as the slope
PolyfitSwapped(x, y) ==
    <<SumSeq(y) * Dot(x, x) - SumSeq(x) * Dot(x, y),
      Len(x) * Dot(x, y) - SumSeq(x) * SumSeq(y),
      Len(x) * Dot(x, x) - SumSeq(x) * SumSeq(x)>>

\* np.polyfit(x, y, 1) as <<A, B, D>>, a = A/D and b = B/D: the normal
\* equations for two or more distinct x, the minimum-norm solution of the
\* column-scaled system (a = y/(2x), b = y/2) for a single sample
PolyfitAffine(x, y) ==
    IF Len(x) = 1 THEN <<y[1], x[1] * y[1], 2 * x[1]>>
    ELSE <<Len(x) * Dot(x, y) - SumSeq(x) * SumSeq(y),
           SumSeq(y) * Dot(x, x) - SumSeq(x) * Dot(x, y),
           Len(x) * Dot(x, x) - SumSeq(x) * SumSeq(x)>>

\* eval_n = min(eval_n, len(eigs), len(zeros))
EvalLen(n, x, zs) == Min(n, Min(Len(x), Len(zs)))

\* z_hat of one sample (1-based rank n, eigenvalue x), as <<num, den>>:
\*   affine      a * lam + b, params <<A, B, D>> with a = A/D, b = B/D
\*   log_n       a * lam + c * log(n_idx) + b, params (a, c, b)
\*   log_lambda  a * lam + c * log(lam) + b
MappedValue(model, params, n, x) ==
    IF model = "affine" THEN <<params[1] * x + params[2], params[3]>>
    ELSE IF model = "log_n"
    THEN <<100 * params[1] * x + params[2] * LogTable[n] + 100 * params[3], 100>>
    ELSE <<100 * params[1] * x + params[2] * LogTable[x] + 100 * params[3], 100>>

\* abs((z_hat - zero) / zero) * 100 for one sample, as <<num, den>>
RelErr(zh, z) == <<100 * Abs(zh[1] - zh[2] * z), Abs(zh[2] * z)>>

FitCall ==
    /\ fit_pc = "idle"
    /\ \E f \in FitFiles, nl \in 1..Len(LamSamples), nz \in 1..Len(ZeroSamples),
          fn \in 1..MaxFit, en \in 1..MaxFit, synthetic \in BOOLEAN :
          /\ fit_file' = f
          /\ \E m \in FitModels(f) : fit_model' = m
          \* main fits and then evaluates; evaluate_model can also be called
          \* on its own with params of the caller
          /\ \E e \in (IF f = "hilbert_grid" THEN {"main", "evaluate_model"}
                        ELSE {"main"}) : fit_entry' = e
          /\ lam' = Prefix(LamSamples, nl)
          /\ zeros' = IF synthetic THEN SyntheticRef(Prefix(LamSamples, nz))
                      ELSE Prefix(ZeroSamples, nz)
          /\ fit_n' = fn
          /\ eval_n' = en
          \* run_model skips a scenario with eval_n > len(zeros)
          /\ (f = "nm_hamiltonian") => en <= nz
    /\ fit_pc' = "called"
    /\ UNCHANGED <<fit_x, fit_y, fit_params, eval_used, rel_err, z_hat, fit_exc>>
    /\ UNCHANGED notFit

\* the model dispatch of main, then fit_affine / fit_log_n / fit_log_lambda
FitRun ==
    /\ fit_pc = "called"
    /\ fit_entry = "main"
    /\ IF KnownModel(fit_model)
       THEN LET n == FitArg(fit_file, fit_n, zeros)
                x == FitX(fit_file, lam, zeros, n)
                y == FitY(fit_file, lam, zeros, n)
            IN  /\ fit_x' = x
                /\ fit_y' = y
                /\ IF LeastSquaresAccepts(fit_model, x, y)
                   THEN /\ fit_pc' = "fitted"
                        /\ IF fit_model = "affine"
                           THEN fit_params' = PolyfitAffine(x, y)
                           ELSE \E s \in ParamSamples : fit_params' = s
                   ELSE /\ fit_pc' = "crashed"
                        /\ fit_params' = <<>>
                /\ fit_exc' = "none"
       ELSE \* raise ValueError("Unknown model ... in SCENARIOS")
            /\ fit_pc' = "raised"
            /\ fit_exc' = "UnknownModel"
            /\ UNCHANGED <<fit_x, fit_y, fit_params>>
    /\ UNCHANGED <<fit_file, fit_model, lam, zeros, fit_n, eval_n, eval_used, rel_err,
                   fit_entry, z_hat>>
    /\ UNCHANGED notFit

\* a direct call evaluate_model(model, lam, zeros, params, eval_n)
EvalCall ==
    /\ fit_pc = "called"
    /\ fit_entry = "evaluate_model"
    /\ \E s \in ParamSamples :
          fit_params' = IF fit_model = "affine" THEN <<s[1], s[3], 1>> ELSE s
    /\ fit_pc' = "fitted"
    /\ UNCHANGED <<fit_file, fit_model, lam, zeros, fit_n, eval_n, fit_x, fit_y,
                   eval_used, rel_err, fit_entry, z_hat, fit_exc>>
    /\ UNCHANGED notFit

\* evaluate_fit / evaluate_model
EvalRun ==
    /\ fit_pc = "fitted"
    /\ LET n == EvalLen(eval_n, lam, zeros)
       IN  /\ eval_used' = n
           /\ IF KnownModel(fit_model)
              THEN /\ z_hat' = [i \in 1..n |->
                                  MappedValue(fit_model, fit_params, i, lam[i])]
                   /\ rel_err' = [i \in 1..n |->
                                    RelErr(z_hat'[i], zeros[i])]
                   /\ fit_pc' = "evaluated"
                   /\ fit_exc' = "none"
              ELSE \* raise ValueError("Unknown model ..."), before rel_err
                   /\ fit_pc' = "raised"
                   /\ fit_exc' = "UnknownModel"
                   /\ UNCHANGED <<z_hat, rel_err>>
    /\ UNCHANGED <<fit_file, fit_model, lam, zeros, fit_n, eval_n, fit_x, fit_y,
                   fit_params, fit_entry>>
    /\ UNCHANGED notFit

FitInit ==
    /\ fit_pc = "idle"
    /\ fit_file = "nm_hamiltonian"
    /\ fit_model = "affine"
    /\ lam = <<>>
    /\ zeros = <<>>
    /\ fit_n = 0
    /\ eval_n = 0
    /\ fit_x = <<>>
    /\ fit_y = <<>>
    /\ fit_params = <<>>
    /\ eval_used = 0
    /\ rel_err = <<>>
    /\ fit_entry = "main"
    /\ z_hat = <<>>
    /\ fit_exc = "none"

FitNext == FitCall \/ FitRun \/ EvalCall \/ EvalRun

\* C5: for every fit_n and eval_n, also larger than the available samples,
\* fitting and evaluation do not crash and work on the first
\* min(requested, len(spectrum), len(reference)) paired samples; the two
\* vectors handed to the least-squares fit always have equal length.
C5_FitEvalClamped ==
    /\ fit_pc # "crashed"
    /\ fit_pc \in {"fitted", "evaluated"} =>
          /\ Len(fit_x) = Len(fit_y)
          /\ Len(fit_x) = Min(fit_n, Min(Len(lam), Len(zeros)))
    /\ fit_pc = "evaluated" =>
          eval_used = Min(eval_n, Min(Len(lam), Len(zeros)))

\* C25: fitting the affine model on noise-free data ref = 3*eig + 7 with
\* two or more distinct eig values recovers a = 3 and b = 7, and evaluating
\* the fitted model on the same data gives a relative error of 0 at every
\* sample (so 0% mean and max).
C25_AffineRoundTrip ==
    (/\ fit_model = "affine"
     /\ fit_entry = "main"
     /\ zeros = SyntheticRef(lam)
     /\ Len(fit_x) >= 2
     /\ fit_pc \in {"fitted", "evaluated"}) =>
        /\ fit_params[3] # 0
        /\ fit_params[1] = 3 * fit_params[3]
        /\ fit_params[2] = 7 * fit_params[3]
        /\ fit_pc = "evaluated" =>
              /\ Len(rel_err) = eval_used
              /\ \A i \in 1..Len(rel_err) : rel_err[i][1] = 0 /\ rel_err[i][2] # 0

\* three synthetic samples were fitted and evaluated
C25_Witness ==
    /\ fit_pc = "evaluated"
    /\ fit_model = "affine"
    /\ fit_entry = "main"
    /\ lam = <<1, 2, 4>>
    /\ zeros = <<10, 13, 19>>
    /\ Len(fit_x) = 3
    /\ eval_used = 3

\* the formula of each recognised tag, written out sample by sample
OwnFormula(model, params, n, x) ==
    CASE model = "affine" -> <<params[1] * x + params[2], params[3]>>
      [] model = "log_n" ->
            <<100 * (params[1] * x + params[3]) + params[2] * LogTable[n], 100>>
      [] model = "log_lambda" ->
            <<100 * (params[1] * x + params[3]) + params[2] * LogTable[x], 100>>

\* C18: a model tag outside {affine, log_n, log_lambda} ends fitting and
\* evaluation with the unknown-model error and no error statistics; each of
\* the three recognised tags is evaluated with its own formula:
\* a*eig + b, a*eig + c*log(n) + b with n the 1-based rank, and
\* a*eig + c*log(eig) + b.
C18_UnknownModelRaises ==
    /\ (fit_model \notin {"affine", "log_n", "log_lambda"}
        /\ fit_pc \in {"fitted", "evaluated", "raised", "crashed"}) =>
          /\ fit_pc \in {"fitted", "raised"}
          /\ fit_pc = "fitted" => fit_entry = "evaluate_model"
          /\ fit_pc = "raised" => fit_exc = "UnknownModel"
          /\ rel_err = <<>>
          /\ z_hat = <<>>
    /\ fit_model \in {"affine", "log_n", "log_lambda"} => fit_pc # "raised"
    /\ fit_pc = "evaluated" =>
          /\ fit_model \in {"affine", "log_n", "log_lambda"}
          /\ Len(z_hat) = eval_used
          /\ Len(rel_err) = eval_used
          /\ \A i \in 1..eval_used :
                FracEq(z_hat[i], OwnFormula(fit_model, fit_params, i, lam[i]))

\* an unrecognised tag was handed to evaluate_model, which raised
C18_Witness ==
    /\ fit_pc = "raised"
    /\ fit_model = "quadratic"
    /\ fit_entry = "evaluate_model"
    /\ fit_exc = "UnknownModel"
    /\ eval_used >= 1

(***************************************************************************)
(* 5. Grid mapper and operator assembler.  A tridiagonal H is held as its  *)
(*    three bands; entries are exact fractions.  The log grid t = log(p)   *)
(*    enters through its spacings h[i] = t[i+1] - t[i] > 0.                *)
(***************************************************************************)
OpFiles == {"nm_index", "nm_log", "hilbert_log", "pic_index", "rhz", "n_grid"}

\* builders whose stencil and potential are separate arguments
SeparateAssembly(file) == file \in {"nm_index", "nm_log", "hilbert_log", "pic_index"}

\* the endpoint clamp of each configuration
ClampNmHamiltonian == 1000000
ClampHilbertGrid == 1000000000
ClampPrimeIndex == 10000
ClampNGrid == 1000000000

Zero == <<0, 1>>

\* -1/h**2 and 2/h**2 with h = 1/(N-1)
InvH2(N) == (N - 1) * (N - 1)

\* build_laplacian_index: main = 2, off = -1, main[0] = main[-1] = clamp
LaplacianIndex(N, clamp) ==
    [main |-> [i \in 1..N |-> IF i = 1 \/ i = N THEN <<clamp, 1>> ELSE <<2, 1>>],
     minus |-> [i \in 1..(N - 1) |-> <<-1, 1>>],
     plus |-> [i \in 1..(N - 1) |-> <<-1, 1>>]]

\* nm_hamiltonian.build_laplacian_log: main[i] = 1/h[i-1] + 1/h[i] inside,
\* off[:] = -1/h, one off array used for both bands
LaplacianLogQuadratic(h, clamp) ==
    LET N == Len(h) + 1
    IN  [main |-> [i \in 1..N |->
                      IF i = 1 \/ i = N THEN <<clamp, 1>>
                      ELSE <<h[i - 1] + h[i], h[i - 1] * h[i]>>],
         minus |-> [i \in 1..(N - 1) |-> <<-1, h[i]>>],
         plus |-> [i \in 1..(N - 1) |-> <<-1, h[i]>>]]

\* hilbert-grid build_laplacian_log_grid, for interior i (0-based 1..N-2):
\*   main[i] = 2/(hm*hp), off_minus[i-1] = -1/(hm*(hm+hp)),
\*   off_plus[i] = -1/(hp*(hm+hp)),  hm = h[i-1], hp = h[i];
\* off_minus[N-2] and off_plus[0] keep their initial zero.
\* (Below the indices are 1-based: entry j of a band is the code's j-1.)
LaplacianLogFiniteDiff(h, clamp) ==
    LET N == Len(h) + 1
    IN  [main |-> [j \in 1..N |->
                      IF j = 1 \/ j = N THEN <<clamp, 1>>
                      ELSE <<2, h[j - 1] * h[j]>>],
         minus |-> [j \in 1..(N - 1) |->
                      \* code index j-1 = i-1 with interior i = j in 1..N-2
                      IF j <= N - 2 THEN <<-1, h[j] * (h[j] + h[j + 1])>> ELSE Zero],
         plus |-> [j \in 1..(N - 1) |->
                      \* code index j-1 = i with interior i = j-1 in 1..N-2
                      IF j >= 2 THEN <<-1, h[j] * (h[j - 1] + h[j])>> ELSE Zero]]

\* rhz.build_operator / n-grid build_hamiltonian: uniform stencil on [0,1]
LaplacianUnit(N) ==
    [main |-> [i \in 1..N |-> <<2 * InvH2(N), 1>>],
     minus |-> [i \in 1..(N - 1) |-> <<-InvH2(N), 1>>],
     plus |-> [i \in 1..(N - 1) |-> <<-InvH2(N), 1>>]]

Stencil(file, h) ==
    IF file = "nm_index" THEN LaplacianIndex(Len(h) + 1, ClampNmHamiltonian)
    ELSE IF file = "pic_index" THEN LaplacianIndex(Len(h) + 1, ClampPrimeIndex)
    ELSE IF file = "nm_log" THEN LaplacianLogQuadratic(h, ClampNmHamiltonian)
    ELSE IF file = "hilbert_log" THEN LaplacianLogFiniteDiff(h, ClampHilbertGrid)
    ELSE LaplacianUnit(Len(h) + 1)

\* main = main_lap + potential (numpy broadcasting of a length-1 potential);
\* n-grid: main[1:-1] = 2/h**2 + V[1:-1], main[0] = main[-1] = 1e9
AssembleMain(file, mainL, V) ==
    LET N == Len(mainL)
    IN  IF file = "n_grid"
        THEN [i \in 1..N |-> IF i = 1 \/ i = N THEN <<ClampNGrid, 1>>
                             ELSE FracAddInt(mainL[i], V[i])]
        ELSE [i \in 1..N |-> FracAddInt(mainL[i], IF Len(V) = 1 THEN V[1] ELSE V[i])]

\* the potential arrays tried: V[i] = i + 1 (n-grid: V = -beta*kappa < 0)
PotentialOf(file, n) ==
    IF file = "n_grid" THEN [i \in 1..n |-> -(i + 1)] ELSE [i \in 1..n |-> i + 1]

OpCall ==
    /\ op_pc = "idle"
    /\ \E f \in OpFiles, N \in 3..MaxPts :
          /\ op_file' = f
          /\ \E h \in [1..(N - 1) -> 1..MaxStep] :
                /\ (f \in {"nm_log", "hilbert_log"}) \/ (\A i \in 1..(N - 1) : h[i] = 1)
                /\ op_h' = h
          /\ \E nv \in 1..N :
                /\ SeparateAssembly(f) \/ nv = N
                /\ op_V' = PotentialOf(f, nv)
    /\ op_pc' = "called"
    /\ UNCHANGED <<main_L, off_minus, off_plus, H_lower, H_main, H_upper>>
    /\ UNCHANGED notOp

BuildLaplacian ==
    /\ op_pc = "called"
    /\ main_L' = Stencil(op_file, op_h).main
    /\ off_minus' = Stencil(op_file, op_h).minus
    /\ off_plus' = Stencil(op_file, op_h).plus
    /\ op_pc' = "stencil"
    /\ UNCHANGED <<op_file, op_h, op_V, H_lower, H_main, H_upper>>
    /\ UNCHANGED notOp

\* build_hamiltonian / build_hamiltonian_log: diags([off_minus, main, off_plus])
BuildHamiltonian ==
    /\ op_pc = "stencil"
    /\ IF BroadcastLen(Len(main_L), Len(op_V)) = Len(main_L)
       THEN /\ H_main' = AssembleMain(op_file, main_L, op_V)
            /\ H_lower' = off_minus
            /\ H_upper' = off_plus
            /\ op_pc' = "built"
       ELSE /\ op_pc' = "raised"
            /\ UNCHANGED <<H_lower, H_main, H_upper>>
    /\ UNCHANGED <<op_file, op_h, op_V, main_L, off_minus, off_plus>>
    /\ UNCHANGED notOp

OpInit ==
    /\ op_pc = "idle"
    /\ op_file = "nm_index"
    /\ op_h = <<>>
    /\ op_V = <<>>
    /\ main_L = <<>>
    /\ off_minus = <<>>
    /\ off_plus = <<>>
    /\ H_lower = <<>>
    /\ H_main = <<>>
    /\ H_upper = <<>>

OpNext == OpCall \/ BuildLaplacian \/ BuildHamiltonian

\* C6: every operator H the pipeline produces equals its transpose:
\* H[i,i+1] = H[i+1,i] for all i, including the rows next to the clamped
\* endpoints and on a non-uniform log grid with unequal spacings.
C6_OperatorSymmetric ==
    op_pc = "built" =>
        \A i \in 1..(Len(H_main) - 1) : FracEq(H_upper[i], H_lower[i])

\* C15: in every operator the pipeline builds, both endpoint diagonal entries
\* H[0,0] and H[N-1,N-1] hold the single large clamp value of that
\* configuration (1e4, 1e6 or 1e9), not an interior stencil value plus
\* potential.
C15_EndpointsClamped ==
    op_pc = "built" =>
        \E c \in {ClampPrimeIndex, ClampNmHamiltonian, ClampNGrid, ClampHilbertGrid} :
            /\ FracEq(H_main[1], <<c, 1>>)
            /\ FracEq(H_main[Len(H_main)], <<c, 1>>)

\* C19: operator assembly fails with a dimension error whenever the length
\* of the potential differs from the length of the stencil's main diagonal
\* (a potential of length 1 included); no operator is built from mismatched
\* lengths.
C19_DimensionMismatchRaises ==
    /\ op_pc = "built" => Len(op_V) = Len(main_L)
    /\ (op_pc \in {"built", "raised"} /\ Len(op_V) # Len(main_L)) =>
          op_pc = "raised"

(***************************************************************************)
(* 6. Batched, checkpointed extraction: real-spectrum-vs-zeros.py main.    *)
(***************************************************************************)
Overshoot == 50    \* k = target + 50
Batch == 100       \* batch = 100
SigmaNum == 19     \* sigma = computed_eigs[-1] * 0.95 = 19/20 of the last
SigmaDen == 20
StopNum == 105     \* early stop: computed_eigs[target-1] > 1.05 * t
StopDen == 100

CkTargets == {10, 60}
CkKinds == {"spread", "clustered"}
CkZeros == {1, 10000}

\* a positive spectrum of N distinct eigenvalues: wide gaps, or a band whose
\* first hundred levels lie within five percent of each other
CkSpectrum(kind) ==
    [i \in 1..CkDim |-> IF kind = "spread" THEN 10 * i + 3 ELSE 1003 + i]

CkK == ck_target + Overshoot

\* the operator configuration of the running process: the target count and
\* the operator (told apart by its lowest eigenvalue)
CkConfig == <<ck_target, ck_spectrum[1]>>

Absent == [exists |-> FALSE, data |-> <<>>, complete |-> FALSE]
Truncated == [exists |-> TRUE, data |-> <<>>, complete |-> FALSE]
Pickled(eigs) == [exists |-> TRUE, data |-> eigs, complete |-> TRUE]

\* eigsh(..., sigma, which='LM', mode='cayley'): the k eigenvalues w whose
\* shifted value |(w + sigma)/(w - sigma)| is largest, sigma = snum/den.
\* CayleyAbove(spec, i, j, ...) is: w_i ranks strictly above w_j.
CayleyAbove(spec, i, j, snum, den) ==
    Abs(den * spec[i] + snum) * Abs(den * spec[j] - snum)
        > Abs(den * spec[j] + snum) * Abs(den * spec[i] - snum)

CayleySets(spec, k, snum, den) ==
    LET idx == 1..Len(spec)
        above(i) == Cardinality({j \in idx : CayleyAbove(spec, j, i, snum, den)})
        notBelow(i) == Cardinality({j \in idx : ~CayleyAbove(spec, i, j, snum, den)})
        sure == {i \in idx : notBelow(i) <= k}
        edge == {i \in idx : above(i) < k /\ notBelow(i) > k}
    IN  {sure \cup T : T \in {U \in SUBSET edge :
                                  Cardinality(U) = k - Cardinality(sure)}}

\* sigma = 0.0 in Cayley mode: (w + 0)/(w - 0) = 1 for every w, so 'LM' does
\* not separate the eigenvalues.  Of the index sets that may come back the
\* two extremes are kept: the k lowest and the k highest.
DegenerateSets(spec, k) == {1..k, (Len(spec) - k + 1)..Len(spec)}

EigshSets(spec, eigs, k) ==
    IF eigs = <<>> THEN DegenerateSets(spec, k)
    ELSE CayleySets(spec, k, SigmaNum * eigs[Len(eigs)], SigmaDen)

\* evals.sort(): the eigenvalues with indices S, ascending
SortedEvals(spec, S) ==
    LET idx == SortedSeq(S)
    IN  SortAsc([i \in 1..Cardinality(S) |-> spec[idx[i]]])

\* the batch appended and left where it fell
ExtendOnly(eigs, evals) == eigs \o evals

\* computed_eigs.extend(evals); computed_eigs.sort()
ExtendSort(eigs, evals) == SortAsc(eigs \o evals)

\* len(computed_eigs) >= target and computed_eigs[target-1] > 1.05 * t
EarlyStop(eigs) ==
    /\ Len(eigs) >= ck_target
    /\ StopDen * eigs[ck_target] > StopNum * ck_t

\* the process is started on an operator, a target and no checkpoint file
CkStart ==
    /\ ck_pc = "idle"
    /\ \E tg \in CkTargets, kind \in CkKinds, t \in CkZeros :
          /\ ck_target' = tg
          /\ ck_spectrum' = CkSpectrum(kind)
          /\ ck_t' = t
    /\ ck_pc' = "resume"
    /\ ck_runs' = 1
    /\ UNCHANGED <<computed_eigs, ck_start, eigvals, ck_file, ck_exc, ck_load,
                   ck_from, ck_log, ck_committed, ck_pending, ck_clean>>
    /\ UNCHANGED <<ck_writer, ck_foreign, ck_same>>
    /\ UNCHANGED notCkpt

\* the same command is run again after an interruption
CkRestart ==
    /\ ck_pc = "crashed"
    /\ ck_runs < MaxRuns
    /\ ck_pc' = "resume"
    /\ ck_runs' = ck_runs + 1
    /\ ck_load' = "none"
    /\ ck_from' = 0
    /\ UNCHANGED <<ck_spectrum, ck_target, ck_t, computed_eigs, ck_start,
                   eigvals, ck_file, ck_exc, ck_log, ck_committed, ck_pending,
                   ck_clean>>
    /\ UNCHANGED <<ck_writer, ck_foreign, ck_same>>
    /\ UNCHANGED notCkpt

\* a finished run is followed by a run with another operator or another
\* target and the same --checkpoint path
CkRerun ==
    /\ ck_pc = "done"
    /\ ck_runs < MaxRuns
    /\ \E tg \in CkTargets, kind \in CkKinds, t \in CkZeros :
          /\ <<tg, CkSpectrum(kind)[1]>> # CkConfig
          /\ ck_target' = tg
          /\ ck_spectrum' = CkSpectrum(kind)
          /\ ck_t' = t
    /\ ck_pc' = "resume"
    /\ ck_runs' = ck_runs + 1
    /\ computed_eigs' = <<>>
    /\ ck_start' = 0
    /\ eigvals' = <<>>
    /\ ck_load' = "none"
    /\ ck_from' = 0
    /\ ck_same' = FALSE
    /\ UNCHANGED <<ck_file, ck_exc, ck_log, ck_committed, ck_pending, ck_clean,
                   ck_writer, ck_foreign>>
    /\ UNCHANGED notCkpt

\* "Resume or start fresh": os.path.exists, pickle.load (no handler), and
\* the range(len(computed_eigs), k, batch) of the loop
CkLoad ==
    /\ ck_pc = "resume"
    /\ IF ~ck_file.exists
       THEN /\ computed_eigs' = <<>>
            /\ ck_load' = "fresh"
            /\ ck_pc' = "loop"
            /\ ck_exc' = ck_exc
       ELSE IF ck_file.complete
       THEN /\ computed_eigs' = ck_file.data
            /\ ck_load' = "resumed"
            /\ ck_pc' = "loop"
            /\ ck_exc' = ck_exc
       ELSE /\ computed_eigs' = computed_eigs
            /\ ck_load' = "corrupt"
            /\ ck_pc' = "aborted"
            /\ ck_exc' = "UnpicklingError"
    /\ ck_start' = Len(computed_eigs')
    /\ ck_from' = Len(computed_eigs')
    /\ ck_foreign' = (ck_load' = "resumed" /\ ck_writer # CkConfig)
    /\ UNCHANGED <<ck_spectrum, ck_target, ck_t, eigvals, ck_file, ck_runs,
                   ck_log, ck_committed, ck_pending, ck_clean>>
    /\ UNCHANGED <<ck_writer, ck_same>>
    /\ UNCHANGED notCkpt

\* one loop iteration up to the sort: this_batch, sigma, eigsh, extend, sort
CkBatch ==
    /\ ck_pc = "loop"
    /\ ck_start < CkK
    /\ LET this_batch == Min(Batch, CkK - ck_start)
       IN  \/ /\ \E S \in EigshSets(ck_spectrum, computed_eigs, this_batch) :
                    computed_eigs' =
                        ExtendSort(computed_eigs, SortedEvals(ck_spectrum, S))
              /\ ck_pc' = "save"
              /\ ck_log' = Append(ck_log, ck_start)
              /\ ck_exc' = ck_exc
           \/ /\ ck_pc' = "aborted"
              /\ ck_exc' = "ArpackNoConvergence"
              /\ UNCHANGED <<computed_eigs, ck_log>>
    /\ UNCHANGED <<ck_spectrum, ck_target, ck_t, ck_start, eigvals, ck_file,
                   ck_runs, ck_load, ck_from, ck_committed, ck_pending,
                   ck_clean>>
    /\ UNCHANGED <<ck_writer, ck_foreign, ck_same>>
    /\ UNCHANGED notCkpt

\* the range is exhausted: eigvals = np.array(computed_eigs[:target])
CkLoopExit ==
    /\ ck_pc = "loop"
    /\ ck_start >= CkK
    /\ eigvals' = Prefix(computed_eigs, ck_target)
    /\ ck_pc' = "done"
    /\ UNCHANGED <<ck_spectrum, ck_target, ck_t, computed_eigs, ck_start,
                   ck_file, ck_exc, ck_runs, ck_load, ck_from, ck_log,
                   ck_committed, ck_pending, ck_clean>>
    /\ UNCHANGED <<ck_writer, ck_foreign, ck_same>>
    /\ UNCHANGED notCkpt

\* open(checkpoint_file, 'wb'): the path is truncated in place
CkOpen ==
    /\ ck_pc = "save"
    /\ ck_file' = Truncated
    /\ ck_pending' = Pickled(computed_eigs)
    /\ ck_pc' = "writing"
    /\ UNCHANGED <<ck_spectrum, ck_target, ck_t, computed_eigs, ck_start,
                   eigvals, ck_exc, ck_runs, ck_load, ck_from, ck_log,
                   ck_committed, ck_clean>>
    /\ UNCHANGED <<ck_writer, ck_foreign, ck_same>>
    /\ UNCHANGED notCkpt

\* pickle.dump: a full buffer reaches the path
CkWrite ==
    /\ ck_pc = "writing"
    /\ Len(ck_file.data) < Len(computed_eigs)
    /\ ck_file' = [ck_file EXCEPT
                     !.data = Prefix(computed_eigs, Len(ck_file.data) + CkChunk)]
    /\ UNCHANGED <<ck_pc, ck_spectrum, ck_target, ck_t, computed_eigs,
                   ck_start, eigvals, ck_exc, ck_runs, ck_load, ck_from,
                   ck_log, ck_committed, ck_pending, ck_clean>>
    /\ UNCHANGED <<ck_writer, ck_foreign, ck_same>>
    /\ UNCHANGED notCkpt

\* the with-block closes the file: the pickle is complete
CkClose ==
    /\ ck_pc = "writing"
    /\ Len(ck_file.data) = Len(computed_eigs)
    /\ ck_file' = Pickled(computed_eigs)
    /\ ck_committed' = Pickled(computed_eigs)
    /\ ck_pc' = "stop_check"
    /\ ck_writer' = CkConfig
    /\ UNCHANGED <<ck_spectrum, ck_target, ck_t, computed_eigs, ck_start,
                   eigvals, ck_exc, ck_runs, ck_load, ck_from, ck_log,
                   ck_pending, ck_clean>>
    /\ UNCHANGED <<ck_foreign, ck_same>>
    /\ UNCHANGED notCkpt

\* "Early stop if we're clearly above the target zero", else the next start
CkStopCheck ==
    /\ ck_pc = "stop_check"
    /\ IF EarlyStop(computed_eigs)
       THEN /\ eigvals' = Prefix(computed_eigs, ck_target)
            /\ ck_pc' = "done"
            /\ ck_start' = ck_start
       ELSE /\ eigvals' = eigvals
            /\ ck_pc' = "loop"
            /\ ck_start' = ck_start + Batch
    /\ UNCHANGED <<ck_spectrum, ck_target, ck_t, computed_eigs, ck_file,
                   ck_exc, ck_runs, ck_load, ck_from, ck_log, ck_committed,
                   ck_pending, ck_clean>>
    /\ UNCHANGED <<ck_writer, ck_foreign, ck_same>>
    /\ UNCHANGED notCkpt

\* the process is killed: memory is lost, the path keeps what reached it
CkCrash ==
    /\ ck_pc \in {"resume", "loop", "save", "writing", "stop_check"}
    /\ ck_pc' = "crashed"
    /\ computed_eigs' = <<>>
    /\ ck_start' = 0
    /\ ck_clean' = (ck_clean /\ ck_pc # "writing")
    /\ UNCHANGED <<ck_spectrum, ck_target, ck_t, eigvals, ck_file, ck_exc,
                   ck_runs, ck_load, ck_from, ck_log, ck_committed, ck_pending>>
    /\ UNCHANGED <<ck_writer, ck_foreign, ck_same>>
    /\ UNCHANGED notCkpt

CkptInit ==
    /\ ck_pc = "idle"
    /\ ck_spectrum = <<>>
    /\ ck_target = 0
    /\ ck_t = 0
    /\ computed_eigs = <<>>
    /\ ck_start = 0
    /\ eigvals = <<>>
    /\ ck_file = Absent
    /\ ck_exc = "none"
    /\ ck_runs = 0
    /\ ck_load = "none"
    /\ ck_from = 0
    /\ ck_log = <<>>
    /\ ck_committed = Absent
    /\ ck_pending = Absent
    /\ ck_clean = TRUE
    /\ ck_writer = <<>>
    /\ ck_foreign = FALSE
    /\ ck_same = TRUE

CkptNext ==
    \/ CkStart
    \/ CkRestart
    \/ CkRerun
    \/ CkLoad
    \/ CkBatch
    \/ CkLoopExit
    \/ CkOpen
    \/ CkWrite
    \/ CkClose
    \/ CkStopCheck
    \/ CkCrash

\* C7: the checkpoint is written atomically: whenever the process has been
\* killed, during a batch or during the checkpoint write, the checkpoint path
\* holds the complete previous checkpoint or the complete new one, never a
\* truncated or partially written file.
C7_CheckpointAtomic ==
    ck_pc = "crashed" => ck_file \in {ck_committed, ck_pending}

\* C8: a checkpoint file that exists but cannot be parsed is treated as
\* empty: the run does not abort and starts the extraction from zero
\* eigenvalues.
C8_CorruptTreatedAsEmpty ==
    ck_load = "corrupt" =>
        /\ ck_pc # "aborted"
        /\ ck_exc # "UnpicklingError"
        /\ ck_from = 0

\* the lists an uninterrupted run on the same arguments can end with
RECURSIVE RunLoop(_, _)
RunLoop(eigs, start) ==
    IF start >= CkK THEN eigs
    ELSE LET S == CHOOSE X \in EigshSets(ck_spectrum, eigs,
                                          Min(Batch, CkK - start)) : TRUE
             next == ExtendSort(eigs, SortedEvals(ck_spectrum, S))
         IN  IF EarlyStop(next) THEN next ELSE RunLoop(next, start + Batch)

UninterruptedResults ==
    {Prefix(LET first == SortedEvals(ck_spectrum, S)
            IN  IF EarlyStop(first) THEN first ELSE RunLoop(first, Batch),
            ck_target) :
        S \in DegenerateSets(ck_spectrum, Min(Batch, CkK))}

\* C9: a run interrupted after completed batches (no interruption inside a
\* checkpoint write) and restarted with the same arguments continues from
\* the checkpointed length, starts no batch below that length, and ends
\* with the eigenvalue list of an uninterrupted run.
C9_ResumeEqualsUninterrupted ==
    (ck_runs >= 2 /\ ck_clean /\ ck_same) =>
        /\ (ck_load = "resumed" /\ ck_pc # "crashed") => ck_start >= ck_from
        /\ ck_pc = "aborted" => ck_exc = "ArpackNoConvergence"
        /\ ck_pc = "done" => eigvals \in UninterruptedResults

\* C10: the accumulated list is, after every batch, the lowest eigenvalues
\* of H in ascending order, each once (a batch re-adds none and skips none),
\* and the returned array is the target smallest eigenvalues of H.
C10_SmallestEachOnce ==
    /\ ck_pc \in {"save", "writing", "stop_check", "loop"} =>
          computed_eigs = Prefix(ck_spectrum, Len(computed_eigs))
    /\ ck_pc = "done" => eigvals = Prefix(ck_spectrum, ck_target)

(***************************************************************************)
(* 7. Parameter sweeps: sweep_prime_counts, sweep_beta_values (hilbert     *)
(*    grid) and sweep_eta (prime-index-curvature).                         *)
(* The eigen-solve and the fit of one sweep point are a deterministic      *)
(* function of the potential the point builds; a row therefore carries     *)
(* that potential next to the errors the point reports.                    *)
(***************************************************************************)
SweepFiles == {"sweep_prime_counts", "sweep_beta_values", "sweep_eta"}
SweepBeta == 50      \* beta=50.0, the default of sweep_prime_counts / sweep_eta
EpsCorr == 2         \* EPS_CORR = 0.02, in hundredths
ScoreScale == 10     \* score = mean_err + 0.1 * abs(slope), in tenths

SwValues == 0..MaxParam
FieldSamples == {<<1, 2, 3>>, <<3, 1, 1, 2>>}
ErrSamples == {[mean |-> 1, max |-> 2, slope |-> 0],
               [mean |-> 1, max |-> 3, slope |-> -15],
               [mean |-> 2, max |-> 2, slope |-> 0]}
BadSets == {{}, {1}}

\* the curvature field of the first Np primes, represented by a field whose
\* length grows with Np
FieldOfCount(Np) == [i \in 1..(Np + 1) |-> i]

\* apply_shape_correction: k_vals * (1 + eta * log(n)), in hundredths; a new
\* array
apply_shape_correction(k_vals, eta) ==
    [i \in 1..Len(k_vals) |-> k_vals[i] * (100 + eta * LogTable[i])]

\* the potential of one sweep point, in units of 1/10000
PointPotential(file, v, field) ==
    IF file = "sweep_prime_counts"
    THEN [i \in 1..Len(FieldOfCount(v)) |-> SweepBeta * FieldOfCount(v)[i] * 10000]
    ELSE IF file = "sweep_beta_values"
    THEN [i \in 1..Len(field) |-> v * field[i] * 10000]
    ELSE LET k_eff == IF v # 0 THEN apply_shape_correction(field, v)
                      ELSE [i \in 1..Len(field) |-> field[i] * 100]
         IN  [i \in 1..Len(field) |->
                 SweepBeta * k_eff[i] * 100 + EpsCorr * LogTable[i]]

\* a point that scales the shared field in place
FieldScaledInPlace(field, v) == [i \in 1..Len(field) |-> field[i] * (v + 2)]

\* what a sweep point leaves in the shared field: every array operation of a
\* point allocates its result, the shared array is only read
FieldAfterPoint(field, v) == field

\* the row of one sweep point
PointRow(v, pot, tab) ==
    [param |-> v, pot |-> pot, mean |-> tab[v].mean, max |-> tab[v].max,
     slope |-> tab[v].slope]

\* rows inserted at the front
PrependRow(rows, row) == <<row>> \o rows

\* means.append / maxes.append / results.append
AppendRow(rows, row) == Append(rows, row)

\* score = mean_err + 0.1 * abs(slope), in tenths
Score(row) == ScoreScale * row.mean + Abs(row.slope)

\* the sweep is called; sweep_beta_values sieves and builds the field once,
\* before its loop
SweepCall ==
    /\ sw_pc = "idle"
    /\ \E f \in SweepFiles, m \in 0..MaxSweep, bad \in BadSets,
          fld \in FieldSamples :
          /\ sw_file' = f
          /\ sw_bad' = bad
          /\ \E vals \in [1..m -> SwValues] : sw_vals' = vals
          /\ \E tab \in [SwValues -> ErrSamples] : sw_tab' = tab
          /\ sw_field' = IF f = "sweep_prime_counts" THEN <<>> ELSE fld
          /\ sw_field0' = IF f = "sweep_prime_counts" THEN <<>> ELSE fld
          /\ sw_sieves' = IF f = "sweep_beta_values" THEN 1 ELSE 0
    /\ sw_pc' = "running"
    /\ UNCHANGED <<sw_i, sw_rows, sw_exc, best_eta, best_score>>
    /\ UNCHANGED notSweep

\* one iteration of the for loop: build, solve, fit, evaluate, append
SweepPoint ==
    /\ sw_pc = "running"
    /\ sw_i < Len(sw_vals)
    /\ LET v == sw_vals[sw_i + 1]
           row == PointRow(v, PointPotential(sw_file, v, sw_field), sw_tab)
       IN  /\ sw_sieves' = IF sw_file = "sweep_prime_counts"
                           THEN sw_sieves + 1 ELSE sw_sieves
           /\ IF v \in sw_bad
              THEN /\ sw_pc' = "raised"
                   /\ sw_exc' = "ArpackNoConvergence"
                   /\ UNCHANGED <<sw_i, sw_rows, sw_field, best_eta, best_score>>
              ELSE /\ sw_rows' = AppendRow(sw_rows, row)
                   /\ sw_field' = FieldAfterPoint(sw_field, v)
                   /\ sw_i' = sw_i + 1
                   /\ IF sw_file = "sweep_eta"
                         /\ (best_score = -1 \/ Score(row) < best_score)
                      THEN best_eta' = v /\ best_score' = Score(row)
                      ELSE UNCHANGED <<best_eta, best_score>>
                   /\ UNCHANGED <<sw_pc, sw_exc>>
    /\ UNCHANGED <<sw_file, sw_vals, sw_bad, sw_tab, sw_field0>>
    /\ UNCHANGED notSweep

\* the loop is over: return the rows (and best_eta)
SweepReturn ==
    /\ sw_pc = "running"
    /\ sw_i = Len(sw_vals)
    /\ sw_pc' = "returned"
    /\ UNCHANGED <<sw_file, sw_vals, sw_bad, sw_tab, sw_field, sw_field0, sw_i,
                   sw_rows, sw_sieves, sw_exc, best_eta, best_score>>
    /\ UNCHANGED notSweep

SweepInit ==
    /\ sw_pc = "idle"
    /\ sw_file = "sweep_eta"
    /\ sw_vals = <<>>
    /\ sw_bad = {}
    /\ sw_tab = <<>>
    /\ sw_field = <<>>
    /\ sw_field0 = <<>>
    /\ sw_i = 0
    /\ sw_rows = <<>>
    /\ sw_sieves = 0
    /\ sw_exc = "none"
    /\ best_eta = -1
    /\ best_score = -1

SweepNext == SweepCall \/ SweepPoint \/ SweepReturn

\* C11: a failure at one sweep point is reported for that value only: the
\* sweep does not end in an exception, and the returned rows cover every
\* value at which the point did not fail.
C11_SweepFailurePerPoint ==
    /\ sw_pc # "raised"
    /\ sw_pc = "returned" =>
          \A i \in 1..Len(sw_vals) :
              sw_vals[i] \notin sw_bad =>
                  \E j \in 1..Len(sw_rows) : sw_rows[j].param = sw_vals[i]

\* C12: a sweep over v[0..m-1] returns exactly m rows, and row i holds the
\* errors computed for v[i] (rows are in the input order of the values).
C12_RowsInInputOrder ==
    /\ sw_pc = "returned" => Len(sw_rows) = Len(sw_vals)
    /\ sw_pc \in {"running", "returned"} =>
          /\ Len(sw_rows) = sw_i
          /\ \A i \in 1..Len(sw_rows) :
                /\ sw_rows[i].param = sw_vals[i]
                /\ sw_rows[i].mean = sw_tab[sw_vals[i]].mean
                /\ sw_rows[i].max = sw_tab[sw_vals[i]].max

C12_Witness ==
    /\ sw_pc = "returned"
    /\ Len(sw_rows) = 3
    /\ sw_vals = <<2, 0, 1>>
    /\ sw_rows[1].mean # sw_rows[2].mean

\* C13: the row of a value depends on that value and on the inputs of the
\* sweep only (whatever the other values and their order); no point modifies
\* the shared curvature field; with beta or eta swept the primes are sieved
\* at most once, not once per point.
C13_PointsIndependent ==
    /\ sw_field = sw_field0
    /\ \A i \in 1..Len(sw_rows) :
          sw_rows[i] = PointRow(sw_rows[i].param,
                                PointPotential(sw_file, sw_rows[i].param, sw_field0),
                                sw_tab)
    /\ sw_file \in {"sweep_beta_values", "sweep_eta"} => sw_sieves <= 1
    /\ (sw_file = "sweep_beta_values" /\ sw_pc # "idle") => sw_sieves = 1

C13_Witness ==
    /\ sw_pc = "returned"
    /\ sw_file = "sweep_eta"
    /\ sw_vals = <<1, 0, 1>>
    /\ Len(sw_rows) = 3
    /\ sw_rows[1] = sw_rows[3]

\* C28: the eta returned by sweep_eta minimises the mean relative error
\* over the swept values: mean_err(best_eta) <= mean_err(eta) for every eta
\* of the sweep.
C28_BestEtaMinimisesMeanError ==
    (sw_pc = "returned" /\ sw_file = "sweep_eta" /\ Len(sw_vals) >= 1) =>
        /\ best_eta \in Range(sw_vals)
        /\ \A i \in 1..Len(sw_rows) :
              sw_tab[best_eta].mean <= sw_rows[i].mean

(***************************************************************************)
(* 8. nm_primes_up_to (n-grid-operator.py).                                *)
(***************************************************************************)
\* sieve = ones(N+1); sieve[:3] = False
UpToFresh(N) == 3..N

\* sieve[p*p : N+1 : 2*p] = False
CrossOutOdd(mask, p, N) ==
    mask \ {m \in (p * p)..N : (m - p * p) % (2 * p) = 0}

UpToCall ==
    /\ up_pc = "idle"
    /\ \E N \in 0..MaxUpTo :
          /\ up_N' = N
          /\ IF N < 3
             THEN /\ up_pc' = "returned"
                  /\ up_ret' = <<>>
                  /\ UNCHANGED <<up_sieve, up_p>>
             ELSE /\ up_pc' = "sieving"
                  /\ up_sieve' = UpToFresh(N)
                  /\ up_p' = 3
                  /\ UNCHANGED up_ret
    /\ UNCHANGED notUpTo

\* one iteration of: for p in range(3, int(sqrt(N)) + 1, 2)
UpToStep ==
    /\ up_pc = "sieving"
    /\ up_p <= ISqrt(up_N)
    /\ up_sieve' = IF up_p \in up_sieve THEN CrossOutOdd(up_sieve, up_p, up_N)
                   ELSE up_sieve
    /\ up_p' = up_p + 2
    /\ UNCHANGED <<up_pc, up_N, up_ret>>
    /\ UNCHANGED notUpTo

\* return np.nonzero(sieve)[0]
UpToReturn ==
    /\ up_pc = "sieving"
    /\ up_p > ISqrt(up_N)
    /\ up_ret' = SortedSeq(up_sieve)
    /\ up_pc' = "returned"
    /\ UNCHANGED <<up_N, up_sieve, up_p>>
    /\ UNCHANGED notUpTo

UpToInit ==
    /\ up_pc = "idle"
    /\ up_N = 0
    /\ up_sieve = {}
    /\ up_p = 0
    /\ up_ret = <<>>

UpToNext == UpToCall \/ UpToStep \/ UpToReturn

\* C14: nm_primes_up_to(N) returns exactly the primes p with 3 <= p <= N, in
\* increasing order (no 2, no composite, no even number); for N < 3 it
\* returns the empty sequence.
C14_OddPrimesUpTo ==
    up_pc = "returned" =>
        /\ StrictlyIncreasing(up_ret)
        /\ Range(up_ret) = {q \in 3..up_N : IsPrimeNumber(q)}

(***************************************************************************)
(* 9. Curvature field transforms and the log-grid pipeline of              *)
(*    prime-index-curvature-hilbert-grid.py: compute_curvature_field with  *)
(*    its built-in smoothing, maybe_downsample, maybe_smooth,              *)
(*    resample_to_log_grid and the assembly in main.  A field is a         *)
(*    sequence of integers over one common denominator; after resampling   *)
(*    each value is a fraction of its own.                                 *)
(***************************************************************************)
\* primes the builder's loop keeps with WINDOW_RADIUS = 20 (p - 20 >= 2),
\* 100 * log(p) for them, and the k_n of the loop; prefixes are tried
SupportSamples == <<23, 29, 31, 37, 41, 43>>
LogSupport == <<314, 337, 343, 361, 371, 376>>
RawSamples == <<4, 1, 7, 2, 9, 3>>

\* entry j (0-based) of the full convolution of k with np.ones(w)
ConvolveFull(k, w, j) ==
    SumSeq([i \in 1..Len(k) |-> IF j - w + 1 <= i - 1 /\ i - 1 <= j THEN k[i] ELSE 0])

\* np.convolve(k, np.ones(w), mode="same"): the centred max(M, N) entries
\* of the full convolution
ConvolveSame(k, w) ==
    LET st == (Min(Len(k), w) - 1) \div 2
    IN  [o \in 1..Max(Len(k), w) |-> ConvolveFull(k, w, st + o - 1)]

\* a[::factor]
Stride(a, factor) ==
    [i \in 1..((Len(a) + factor - 1) \div factor) |-> a[(i - 1) * factor + 1]]

\* np.linspace(t[0], t[-1], n), as fractions
Linspace(t, n) ==
    IF n = 1 THEN << <<t[1], 1>> >>
    ELSE [i \in 1..n |-> <<t[1] * (n - 1) + (i - 1) * (t[Len(t)] - t[1]), n - 1>>]

\* the segment of t_raw that holds the grid point g
SegmentOf(t, g) ==
    CHOOSE j \in 1..(Len(t) - 1) :
        /\ t[j] * g[2] <= g[1]
        /\ \A m \in (j + 1)..(Len(t) - 1) : t[m] * g[2] > g[1]

\* np.interp(g, t_raw, k) for one grid point g inside [t[0], t[-1]]
Interp(g, t, k, scale) ==
    IF Len(t) = 1 THEN <<k[1], scale>>
    ELSE LET j == SegmentOf(t, g)
             dt == t[j + 1] - t[j]
         IN  <<k[j] * g[2] * dt + (k[j + 1] - k[j]) * (g[1] - t[j] * g[2]),
               g[2] * dt * scale>>

\* np.diff(t)
Diff(t) == [i \in 1..(Len(t) - 1) |-> t[i + 1] - t[i]]

FieldCall ==
    /\ fd_pc = "idle"
    /\ \E n \in 0..MaxField, w \in 0..MaxSmooth, f \in 0..MaxFactor,
          l \in 1..MaxLevels :
          /\ fd_n' = n
          /\ fd_win' = w
          /\ fd_factor' = f
          /\ fd_levels' = l
    /\ fd_pc' = "called"
    /\ UNCHANGED <<fd_p, fd_k, fd_scale, fd_t, fd_klog, fd_h, fd_exc, fd_first, fd_again>>
    /\ UNCHANGED notField

\* a module global that a call leaves one larger
GlobalBumped(w) == w + 1

\* SMOOTHING_WINDOW after a call of compute_curvature_field: the function
\* reads the module global and never assigns it
GlobalAfterBuild(w) == w

\* what compute_curvature_field returns: the loop's (p_used, k_vals), then
\* the built-in smoothing under SMOOTHING_WINDOW > 0
BuiltField(n, w) ==
    [p |-> Prefix(SupportSamples, n),
     k |-> IF w > 0 THEN ConvolveSame(Prefix(RawSamples, n), w)
           ELSE Prefix(RawSamples, n),
     scale |-> IF w > 0 THEN w ELSE 1]

\* compute_curvature_field(primes)
FieldBuild ==
    /\ fd_pc = "called"
    /\ IF fd_win > 0 /\ fd_n = 0
       THEN \* np.convolve of an empty array raises ValueError
            /\ fd_pc' = "raised"
            /\ fd_exc' = "ValueError"
            /\ UNCHANGED <<fd_p, fd_k, fd_scale, fd_first>>
       ELSE /\ fd_pc' = "built"
            /\ fd_p' = BuiltField(fd_n, fd_win).p
            /\ fd_k' = BuiltField(fd_n, fd_win).k
            /\ fd_scale' = BuiltField(fd_n, fd_win).scale
            /\ fd_first' = BuiltField(fd_n, fd_win)
            /\ UNCHANGED fd_exc
    /\ fd_win' = GlobalAfterBuild(fd_win)
    /\ UNCHANGED <<fd_n, fd_factor, fd_levels, fd_t, fd_klog, fd_h, fd_again>>
    /\ UNCHANGED notField

\* a second call compute_curvature_field(primes) with the same arguments
FieldRebuild ==
    /\ fd_pc = "built"
    /\ fd_again = <<>>
    /\ fd_again' = <<BuiltField(fd_n, fd_win)>>
    /\ fd_win' = GlobalAfterBuild(fd_win)
    /\ UNCHANGED <<fd_pc, fd_n, fd_factor, fd_levels, fd_p, fd_k, fd_scale, fd_t,
                   fd_klog, fd_h, fd_exc, fd_first>>
    /\ UNCHANGED notField

\* maybe_downsample(p_used, k_vals, CURVATURE_DOWNSAMPLE)
FieldDownsample ==
    /\ fd_pc = "built"
    /\ IF fd_factor <= 1
       THEN UNCHANGED <<fd_p, fd_k>>
       ELSE /\ fd_p' = Stride(fd_p, fd_factor)
            /\ fd_k' = Stride(fd_k, fd_factor)
    /\ fd_pc' = "downsampled"
    /\ UNCHANGED <<fd_n, fd_win, fd_factor, fd_levels, fd_scale, fd_t, fd_klog, fd_h,
                   fd_exc, fd_first, fd_again>>
    /\ UNCHANGED notField

\* maybe_smooth(k_vals, SMOOTHING_WINDOW)
FieldSmooth ==
    /\ fd_pc = "downsampled"
    /\ IF fd_win <= 1 \/ fd_win > Len(fd_k)
       THEN UNCHANGED <<fd_k, fd_scale>>
       ELSE /\ fd_k' = ConvolveSame(fd_k, fd_win)
            /\ fd_scale' = fd_scale * fd_win
    /\ fd_pc' = "smoothed"
    /\ UNCHANGED <<fd_n, fd_win, fd_factor, fd_levels, fd_p, fd_t, fd_klog, fd_h, fd_exc,
                   fd_first, fd_again>>
    /\ UNCHANGED notField

\* resample_to_log_grid(p_used, k_vals)
FieldResample ==
    /\ fd_pc = "smoothed"
    /\ IF Len(fd_p) # Len(fd_k)
       THEN /\ fd_pc' = "raised"
            /\ fd_exc' = "ValueError"
            /\ UNCHANGED <<fd_t, fd_klog>>
       ELSE IF Len(fd_p) = 0
       THEN \* t_raw[0] of an empty array
            /\ fd_pc' = "raised"
            /\ fd_exc' = "IndexError"
            /\ UNCHANGED <<fd_t, fd_klog>>
       ELSE LET t_raw == [i \in 1..Len(fd_p) |->
                            LogSupport[CHOOSE m \in 1..Len(SupportSamples) :
                                           SupportSamples[m] = fd_p[i]]]
                t_grid == Linspace(t_raw, Len(fd_k))
            IN  /\ fd_t' = t_grid
                /\ fd_klog' = [i \in 1..Len(t_grid) |->
                                 Interp(t_grid[i], t_raw, fd_k, fd_scale)]
                /\ fd_pc' = "resampled"
                /\ UNCHANGED fd_exc
    /\ UNCHANGED <<fd_n, fd_win, fd_factor, fd_levels, fd_p, fd_k, fd_scale, fd_h,
                   fd_first, fd_again>>
    /\ UNCHANGED notField

\* main: the NUM_LEVELS guard, then build_log_grid(p_used) and
\* build_laplacian_log_grid(t_grid), combined with V = BETA * k_vals
FieldAssemble ==
    /\ fd_pc = "resampled"
    /\ IF Len(fd_klog) < fd_levels + 2
       THEN /\ fd_pc' = "raised"
            /\ fd_exc' = "ValueError"
            /\ UNCHANGED fd_h
       ELSE /\ fd_h' = Diff([i \in 1..Len(fd_p) |->
                               LogSupport[CHOOSE m \in 1..Len(SupportSamples) :
                                              SupportSamples[m] = fd_p[i]]])
            /\ fd_pc' = "assembled"
            /\ UNCHANGED fd_exc
    /\ UNCHANGED <<fd_n, fd_win, fd_factor, fd_levels, fd_p, fd_k, fd_scale, fd_t,
                   fd_klog, fd_first, fd_again>>
    /\ UNCHANGED notField

FieldInit ==
    /\ fd_pc = "idle"
    /\ fd_n = 0
    /\ fd_win = 0
    /\ fd_factor = 1
    /\ fd_levels = 1
    /\ fd_p = <<>>
    /\ fd_k = <<>>
    /\ fd_scale = 1
    /\ fd_t = <<>>
    /\ fd_klog = <<>>
    /\ fd_h = <<>>
    /\ fd_exc = "none"
    /\ fd_first = [p |-> <<>>, k |-> <<>>, scale |-> 1]
    /\ fd_again = <<>>

FieldNext ==
    FieldCall \/ FieldBuild \/ FieldRebuild \/ FieldDownsample \/ FieldSmooth \/ FieldResample
    \/ FieldAssemble

\* a < b for two fractions
FracLess(a, b) == a[1] * b[2] < b[1] * a[2]

\* C21: after the field is built and after each transform applied to it
\* (built-in smoothing, maybe_downsample, maybe_smooth,
\* resample_to_log_grid) the field and its support have equal length and the
\* support is strictly increasing, for every smoothing window and
\* downsample factor.
C21_FieldMatchesSupport ==
    /\ fd_pc \in {"built", "downsampled", "smoothed"} =>
          /\ Len(fd_k) = Len(fd_p)
          /\ StrictlyIncreasing(fd_p)
    /\ fd_pc \in {"resampled", "assembled"} =>
          /\ Len(fd_klog) = Len(fd_t)
          /\ \A i \in 1..(Len(fd_t) - 1) : FracLess(fd_t[i], fd_t[i + 1])

\* a - b for two fractions
FracSub(a, b) == <<a[1] * b[2] - b[1] * a[2], a[2] * b[2]>>

\* C22: whenever the field has been resampled onto the uniform grid in
\* t = log(support), the Laplacian stencil combined with it is the uniform
\* stencil on that same grid: the spacings the stencil was built from are
\* the spacings of the grid the field lives on, never the original
\* log(prime) spacings.
C22_ResampledFieldOnUniformStencil ==
    fd_pc = "assembled" =>
        /\ Len(fd_h) = Len(fd_t) - 1
        /\ \A i \in 1..Len(fd_h) :
              FracEq(<<fd_h[i], 1>>, FracSub(fd_t[i + 1], fd_t[i]))

(***************************************************************************)
(* 10. The post-processing transforms as functions of a field              *)
(*     [k, scale]: maybe_smooth and maybe_downsample of the hilbert-grid   *)
(*     file, apply_shape_correction of prime-index-curvature.py.           *)
(***************************************************************************)
Transforms == {"smooth", "downsample", "tail"}

\* maybe_smooth(k, window)
MaybeSmooth(fld, w) ==
    IF w <= 1 \/ w > Len(fld.k) THEN fld
    ELSE [k |-> ConvolveSame(fld.k, w), scale |-> fld.scale * w]

\* maybe_downsample(p, k, factor), the field part
MaybeDownsample(fld, f) ==
    IF f <= 1 THEN fld ELSE [k |-> Stride(fld.k, f), scale |-> fld.scale]

\* apply_shape_correction(k_vals, eta)
ShapeCorrection(fld, eta) ==
    [k |-> apply_shape_correction(fld.k, eta), scale |-> fld.scale * 100]

ApplyTransform(name, fld, w, f, eta) ==
    CASE name = "smooth" -> MaybeSmooth(fld, w)
      [] name = "downsample" -> MaybeDownsample(fld, f)
      [] name = "tail" -> ShapeCorrection(fld, eta)

\* the caller's array after a transform ran on it: each transform builds a
\* new array or hands the same one back, none writes into it
InputAfter(fld) == fld

TransCall ==
    /\ tr_pc = "idle"
    /\ \E n \in 0..MaxField, a \in Transforms, b \in Transforms,
          w \in 0..MaxSmooth, f \in 0..MaxFactor, eta \in 0..MaxParam :
          /\ a # b
          /\ tr_in' = [k |-> Prefix(RawSamples, n), scale |-> 1]
          /\ tr_after' = [k |-> Prefix(RawSamples, n), scale |-> 1]
          /\ tr_first' = a
          /\ tr_second' = b
          /\ tr_w' = w
          /\ tr_f' = f
          /\ tr_eta' = eta
    /\ tr_pc' = "called"
    /\ UNCHANGED <<tr_ab, tr_ba>>
    /\ UNCHANGED notTrans

\* second(first(k))
TransApply ==
    /\ tr_pc = "called"
    /\ LET mid == ApplyTransform(tr_first, tr_after, tr_w, tr_f, tr_eta)
       IN  /\ tr_ab' = ApplyTransform(tr_second, mid, tr_w, tr_f, tr_eta)
           /\ tr_after' = InputAfter(tr_after)
    /\ tr_pc' = "applied"
    /\ UNCHANGED <<tr_in, tr_first, tr_second, tr_w, tr_f, tr_eta, tr_ba>>
    /\ UNCHANGED notTrans

\* first(second(k)), on the same input array
TransSwap ==
    /\ tr_pc = "applied"
    /\ LET mid == ApplyTransform(tr_second, tr_after, tr_w, tr_f, tr_eta)
       IN  /\ tr_ba' = ApplyTransform(tr_first, mid, tr_w, tr_f, tr_eta)
           /\ tr_after' = InputAfter(tr_after)
    /\ tr_pc' = "swapped"
    /\ UNCHANGED <<tr_in, tr_first, tr_second, tr_w, tr_f, tr_eta, tr_ab>>
    /\ UNCHANGED notTrans

TransInit ==
    /\ tr_pc = "idle"
    /\ tr_in = [k |-> <<>>, scale |-> 1]
    /\ tr_first = "smooth"
    /\ tr_second = "downsample"
    /\ tr_w = 0
    /\ tr_f = 1
    /\ tr_eta = 0
    /\ tr_ab = [k |-> <<>>, scale |-> 1]
    /\ tr_ba = [k |-> <<>>, scale |-> 1]
    /\ tr_after = [k |-> <<>>, scale |-> 1]

TransNext == TransCall \/ TransApply \/ TransSwap

\* two fields hold the same values
SameField(x, y) ==
    /\ Len(x.k) = Len(y.k)
    /\ \A i \in 1..Len(x.k) : x.k[i] * y.scale = y.k[i] * x.scale

\* C23: smoothing, stride downsampling and the tail correction are pure and
\* order-independent: the input array is left as it was, and two of them
\* applied in either order give the same field.
C23_TransformsCommute ==
    /\ tr_pc \in {"applied", "swapped"} => tr_after = tr_in
    /\ tr_pc = "swapped" => SameField(tr_ab, tr_ba)

RejectedBelowZero(target) == target < 0

\* if target <= 0: raise SystemExit("target-zeros must be > 0")
TargetRejected(target) == target <= 0

\* if target >= N: warn and use N - 1
MainClamp(target, N) == IF target >= N THEN N - 1 ELSE target

\* sieve_primes(limit) runs through: np.ones(limit + 1) needs limit >= -1
\* and int(limit ** 0.5) a limit that is not negative
SieveRuns(lim) == lim >= 0

\* build_operator(N, primes) runs through: h = 1.0 / (N - 1) divides by
\* zero for N = 1, np.ones(N - 1) has a negative size for N = 0
OperatorBuilds(N) == N >= 2

RhzParse ==
    /\ rz_pc = "idle"
    /\ \E N \in (-1)..MaxMainN, t \in (-1)..MaxMainT :
          /\ rz_N' = N
          /\ rz_arg' = t
          /\ rz_target' = t
    /\ rz_pc' = "parsed"
    /\ UNCHANGED <<rz_warned, rz_sieved, rz_built, rz_k, rz_status>>
    /\ UNCHANGED notRhz

\* the two checks of main on target
RhzCheck ==
    /\ rz_pc = "parsed"
    /\ IF TargetRejected(rz_target)
       THEN /\ rz_pc' = "exited"
            /\ rz_status' = 1
            /\ UNCHANGED <<rz_target, rz_warned>>
       ELSE /\ rz_pc' = "checked"
            /\ rz_warned' = (rz_target >= rz_N)
            /\ rz_target' = MainClamp(rz_target, rz_N)
            /\ UNCHANGED rz_status
    /\ UNCHANGED <<rz_N, rz_arg, rz_sieved, rz_built, rz_k>>
    /\ UNCHANGED notRhz

\* primes = sieve_primes(N)
RhzSieve ==
    /\ rz_pc = "checked"
    /\ IF SieveRuns(rz_N)
       THEN /\ rz_pc' = "sieved"
            /\ rz_sieved' = TRUE
            /\ UNCHANGED rz_status
       ELSE /\ rz_pc' = "exited"
            /\ rz_status' = 1
            /\ UNCHANGED rz_sieved
    /\ UNCHANGED <<rz_N, rz_arg, rz_target, rz_warned, rz_built, rz_k>>
    /\ UNCHANGED notRhz

\* H, h, k_n = build_operator(N, primes)
RhzBuild ==
    /\ rz_pc = "sieved"
    /\ IF OperatorBuilds(rz_N)
       THEN /\ rz_pc' = "built"
            /\ rz_built' = TRUE
            /\ UNCHANGED rz_status
       ELSE /\ rz_pc' = "exited"
            /\ rz_status' = 1
            /\ UNCHANGED rz_built
    /\ UNCHANGED <<rz_N, rz_arg, rz_target, rz_warned, rz_sieved, rz_k>>
    /\ UNCHANGED notRhz

\* compute_eigenvalues(H, target) up to its eigsh(H, k=target, ...) call
RhzSolve ==
    /\ rz_pc = "built"
    /\ rz_k' = ClampK("rhz", rz_target, rz_N)
    /\ rz_pc' = "eigsh_called"
    /\ UNCHANGED <<rz_N, rz_arg, rz_target, rz_warned, rz_sieved, rz_built, rz_status>>
    /\ UNCHANGED notRhz

RhzInit ==
    /\ rz_pc = "idle"
    /\ rz_N = 0
    /\ rz_arg = 0
    /\ rz_target = 0
    /\ rz_warned = FALSE
    /\ rz_sieved = FALSE
    /\ rz_built = FALSE
    /\ rz_k = -1
    /\ rz_status = -1

RhzNext == RhzParse \/ RhzCheck \/ RhzSieve \/ RhzBuild \/ RhzSolve

\* C26: with --target-zeros <= 0 the process exits with a non-zero status
\* before sieving or building anything; with --target-zeros >= N it warns
\* and continues with target = N - 1; the eigensolver is only ever called
\* with 1 <= k < N.
C26_TargetChecked ==
    /\ (rz_arg <= 0 /\ rz_pc \notin {"idle", "parsed"}) =>
          /\ rz_pc = "exited"
          /\ rz_status # 0 /\ rz_status # -1
          /\ ~rz_sieved /\ ~rz_built
          /\ rz_k = -1
    /\ (rz_arg > 0 /\ rz_arg >= rz_N /\ rz_pc \notin {"idle", "parsed"}) =>
          /\ rz_warned
          /\ rz_target = rz_N - 1
          /\ rz_pc = "exited" => (rz_sieved \/ ~SieveRuns(rz_N))
    /\ (rz_arg > 0 /\ rz_arg < rz_N /\ rz_pc \notin {"idle", "parsed"}) =>
          /\ ~rz_warned
          /\ rz_target = rz_arg
    /\ rz_pc = "eigsh_called" => (1 <= rz_k /\ rz_k < rz_N)

\* a too large target was clamped and reached the eigensolver
C26_Witness ==
    /\ rz_pc = "eigsh_called"
    /\ rz_arg > rz_N
    /\ rz_warned
    /\ rz_k = rz_N - 1

\* C27: the checkpoint is bound to the operator configuration: a run never
\* resumes from a checkpoint that a run with a different operator or a
\* different target count left at the same path, and never returns
\* eigenvalues of another operator.
C27_CheckpointBoundToConfig ==
    /\ ~ck_foreign
    /\ ck_pc = "done" => Range(eigvals) \subseteq Range(ck_spectrum)

(***************************************************************************)
(* 12. nm_dynamic_curvature (n-grid-operator.py): the quadratic map with   *)
(*     curvature-triggered flips, on integer-valued b, c and kappa.        *)
(***************************************************************************)
DynB == {0, 1, 2}
DynC == {-2, -1, 0, 1}
DynKappa == {0, 1}

\* T = 1.0 + abs(b) * kappa_param
Threshold(b, kappa) == 1 + Abs(b) * kappa

\* x_next = sigma[n] * x[n] ** 2 + c
NextX(sig, x, c) == sig * x * x + c

\* an orientation that never flips
KeepSigma(sig, x_next, T) == sig

\* sigma[n + 1] = -sigma[n] if abs(x_next) > T else sigma[n]
NextSigma(sig, x_next, T) == IF Abs(x_next) > T THEN -sig ELSE sig

\* the three arrays are allocated, x[0] = b, sigma[0] = 1
DynCall ==
    /\ dy_pc = "idle"
    /\ \E N \in 0..MaxDyn, b \in DynB, c \in DynC, kappa \in DynKappa :
          /\ dy_N' = N
          /\ dy_b' = b
          /\ dy_c' = c
          /\ dy_kappa' = kappa
          /\ IF N = 0
             THEN \* x[0] = b on an empty array: IndexError
                  /\ dy_pc' = "raised"
                  /\ dy_x' = <<>>
                  /\ dy_sigma' = <<>>
                  /\ dy_kd' = <<>>
             ELSE /\ dy_pc' = "running"
                  /\ dy_x' = [i \in 1..N |-> IF i = 1 THEN b ELSE 0]
                  /\ dy_sigma' = [i \in 1..N |-> 1]
                  /\ dy_kd' = [i \in 1..N |-> 0]
    /\ dy_n' = 0
    /\ UNCHANGED notDyn

\* one iteration of: for n in range(N - 1)
DynStep ==
    /\ dy_pc = "running"
    /\ dy_n < dy_N - 1
    /\ LET x_next == NextX(dy_sigma[dy_n + 1], dy_x[dy_n + 1], dy_c)
       IN  /\ dy_sigma' = [dy_sigma EXCEPT ![dy_n + 2] =
                             NextSigma(dy_sigma[dy_n + 1], x_next,
                                       Threshold(dy_b, dy_kappa))]
           /\ dy_x' = [dy_x EXCEPT ![dy_n + 2] = x_next]
           /\ dy_kd' = [dy_kd EXCEPT ![dy_n + 1] = Abs(x_next - dy_x[dy_n + 1])]
    /\ dy_n' = dy_n + 1
    /\ UNCHANGED <<dy_pc, dy_N, dy_b, dy_c, dy_kappa>>
    /\ UNCHANGED notDyn

\* after the loop: kappa_d[-1] = kappa_d[-2] if N > 1; return
DynReturn ==
    /\ dy_pc = "running"
    /\ dy_n >= dy_N - 1
    /\ dy_kd' = IF dy_N > 1 THEN [dy_kd EXCEPT ![dy_N] = dy_kd[dy_N - 1]] ELSE dy_kd
    /\ dy_pc' = "returned"
    /\ UNCHANGED <<dy_N, dy_b, dy_c, dy_kappa, dy_n, dy_x, dy_sigma>>
    /\ UNCHANGED notDyn

DynInit ==
    /\ dy_pc = "idle"
    /\ dy_N = 0
    /\ dy_b = 0
    /\ dy_c = 0
    /\ dy_kappa = 0
    /\ dy_n = 0
    /\ dy_x = <<>>
    /\ dy_sigma = <<>>
    /\ dy_kd = <<>>

DynNext == DynCall \/ DynStep \/ DynReturn

\* C29: for every completed step n in 0..N-2 (entry n+1 of the sequences):
\* sigma[n] is +1 or -1, x[n+1] = sigma[n]*x[n]^2 + c, sigma[n+1] = -sigma[n]
\* exactly when |x[n+1]| > 1 + |b|*kappa and sigma[n] otherwise, and
\* kappa_d[n] = |x[n+1] - x[n]|; on return with N > 1 the last sample
\* kappa_d[N-1] copies kappa_d[N-2], and every step was taken.
C29_DynamicCurvatureSteps ==
    /\ dy_pc \in {"running", "returned"} =>
          \A m \in 1..dy_n :
              /\ dy_sigma[m] \in {1, -1}
              /\ dy_sigma[m + 1] \in {1, -1}
              /\ dy_x[m + 1] = dy_sigma[m] * dy_x[m] * dy_x[m] + dy_c
              /\ (dy_sigma[m + 1] = -dy_sigma[m]) <=>
                    (Abs(dy_x[m + 1]) > 1 + Abs(dy_b) * dy_kappa)
              /\ dy_kd[m] = Abs(dy_x[m + 1] - dy_x[m])
    /\ dy_pc = "returned" =>
          /\ dy_n = dy_N - 1
          /\ Len(dy_kd) = dy_N /\ Len(dy_sigma) = dy_N
          /\ dy_N > 1 => dy_kd[dy_N] = dy_kd[dy_N - 1]

\* a run of four samples with a step that flips and a step that does not
C29_Witness ==
    /\ dy_pc = "returned"
    /\ dy_N = 4
    /\ \E m \in 1..3 : dy_sigma[m + 1] = -dy_sigma[m]
    /\ \E m \in 1..3 : dy_sigma[m + 1] = dy_sigma[m]
    /\ dy_kd[4] = dy_kd[3]
    /\ dy_kd[3] > 0

Init == SieveInit /\ WindowInit /\ SolverInit /\ FitInit /\ OpInit /\ CkptInit
        /\ SweepInit /\ UpToInit /\ FieldInit /\ TransInit /\ RhzInit /\ DynInit

SpecSieve == Init /\ [][SieveNext]_vars

\* the interpreter runs the loop on: a call that is sieving keeps stepping
SpecSieveLive ==
    Init /\ [][SieveNext]_vars /\ WF_vars(GenSieveStep) /\ WF_vars(GenCheck)

SpecWindow == Init /\ [][WindowNext]_vars

SpecSolver == Init /\ [][SolverNext]_vars

SpecFit == Init /\ [][FitNext]_vars

SpecOperator == Init /\ [][OpNext]_vars

SpecCkpt == Init /\ [][CkptNext]_vars

SpecSweep == Init /\ [][SweepNext]_vars

SpecUpTo == Init /\ [][UpToNext]_vars

SpecField == Init /\ [][FieldNext]_vars

SpecTrans == Init /\ [][TransNext]_vars

SpecRhzMain == Init /\ [][RhzNext]_vars

SpecDyn == Init /\ [][DynNext]_vars

====
